---- MODULE Spec2Model ----
(***************************************************************************)
(* A state-machine model of acl-api: the FastAPI handlers under            *)
(* src/app/api/v1, the ORM models and their constraints, the arq worker    *)
(* hooks, and the pure helpers the handlers call.  The database is the     *)
(* state; a handler is one action unless it is split at an await point     *)
(* where another request or a worker can run.                              *)
(***************************************************************************)
EXTENDS Integers, Sequences, FiniteSets, TLC

VARIABLES
    networks,        \* networks table: id -> [name]
    network_seq,     \* last id handed out by the networks id sequence
    addresses,       \* network_addresses table: id -> [network_id, address, nested_network_id]
    address_seq,     \* last id handed out by the network_addresses id sequence
    pending,         \* client -> name that passed write_network's pre-check, or NoName
    services,        \* services table: id -> [name]
    service_seq,
    entries,         \* service_entries table: id -> [service_id, protocol, port, nested_service_id]
    entry_seq,
    policies,        \* policies table: id -> [name, targets, tests]
    policy_seq,
    terms,           \* policy_terms table and its association tables
    term_seq,
    targets,         \* targets table: id -> [name]
    tests,           \* tests table: id -> [name, cases]
    test_seq,
    dynamic_policies, \* dynamic_policies table and its association tables
    dynamic_policy_seq,
    revisions,       \* revisions table: id -> [policy_id, dynamic_policy_id, json_data,
                     \*                         expanded_terms]
    revision_seq,
    revision_configs, \* revision_configs table: id -> [revision_id, target_id]
    config_seq,
    revise,          \* the POST /revisions request in progress, after its first commit
    deployers,       \* deployers table: id -> [name, mode, target_id]
    deployments,     \* deployments table: id -> [deployer_id, revision_id, status, output]
    deployment_seq,
    jobs,            \* the arq queue and its results: job id -> job
    workers,         \* worker -> the job it runs and its ctx
    deploy,          \* the POST /revisions/{id}/deploy request in progress
    call,            \* a call of a resolver function: [pc, function, arguments, result]
    session,         \* the ORM session of that call: the loaded terms still attached to it
    adaptor,         \* per worker, the deploy function it runs: its position and its scratch state
    response         \* the last response sent: [op, status, id]

netVars == <<networks, network_seq, addresses, address_seq, pending>>
svcVars == <<services, service_seq, entries, entry_seq>>
polVars == <<policies, policy_seq, terms, term_seq>>

auxVars == <<targets, tests, test_seq, dynamic_policies, dynamic_policy_seq>>
revVars == <<revisions, revision_seq, revision_configs, config_seq, revise>>
depVars == <<deployers, deployments, deployment_seq, jobs, workers, deploy>>

vars == <<netVars, svcVars, polVars, auxVars, revVars, depVars, call, session, adaptor, response>>

----------------------------------------------------------------------------
(* Bounds of the exploration. *)

MaxNetworks == 2
MaxAddresses == 2
MaxClients == 2

NetworkNames == {"net_a", "net_b"}
Clients == 1..MaxClients

(* SQL NULL / Python None in an id column; ids are positive. *)
NoId == 0
(* SQL NULL in the address column; an address is a pair <<base, prefixlen>>. *)
NoAddress == << >>
NoName == "-"

AddressInputs == {<<0, 1>>}
(* Width of an address in bits. *)
AddressBits == 2

MaxServices == 2
MaxEntries == 2
PortInputs == {"80"}
MaxPolicies == 2
MaxTerms == 2
PolicyNames == {"pol_a", "pol_b"}
TermNames == {"t1", "t2"}

MaxRevisions == 1
MaxTargets == 2
MaxExpandPolicies == 3
MaxExpandTerms == 4
MaxExcluded == 3
MaxFilterNetworks == 3
MaxFilterAddresses == 4
MaxResolverTerms == 2
MaxRankDepth == 3
MaxRankLen == 3
MaxFrontMoves == 26
MaxTests == 1
MaxDynamicPolicies == 1
MaxStoreRows == 4
MaxDeployments == 3
MaxTries == 2
MaxAdaptorDeployments == 2
MaxWorkers == 1
MaxQueueWorkers == 2
Workers == 1..MaxWorkers

(* SQL NULL in a string or boolean column. *)
Null == "NULL"

(* log_stream.getvalue() *)
LogOutput == "log"
IdleWorker == [pc |-> "idle", job_id |-> NoId, deployment |-> NoId]
(* No term is attached to the session. *)
NoSession == << >>

(* No worker runs a deploy function. *)
IdleAdaptor == [pc |-> "idle"]
NoAdaptor == [w \in Workers |-> IdleAdaptor]

(* No call of a resolver function is followed. *)
NoCall == [pc |-> "idle", function |-> "NULL", arguments |-> << >>, result |-> << >>]

(* No POST /revisions request is between its commits. *)
NoRevision == [pc |-> "idle", id |-> 0, configs |-> << >>]
NoRequest == [pc |-> "idle"]

----------------------------------------------------------------------------
(* Responses. *)

Resp(op, status, id) == [op |-> op, status |-> status, id |-> id]

Insert(table, id, row) == [i \in DOMAIN table \cup {id} |-> IF i = id THEN row ELSE table[i]]

Remove(table, ids) == [i \in DOMAIN table \ ids |-> table[i]]

Range(seq) == {seq[i] : i \in DOMAIN seq}

----------------------------------------------------------------------------
(* Networks. *)

(* Rows of the networks table whose name is `name`. *)
NetworksNamed(name) == {n \in DOMAIN networks : networks[n].name = name}

(* uq_network_name is declared over the pair (id, name). *)
uq_network_name(table) ==
    \A a, b \in DOMAIN table : a # b => <<a, table[a].name>> # <<b, table[b].name>>

(* network_addresses: UniqueConstraint(network_id, nested_network_id); rows  *)
(* whose nested_network_id is NULL never collide.                            *)
uq_network_nested(table) ==
    \A a, b \in DOMAIN table :
        (/\ table[a].network_id = table[b].network_id
         /\ table[a].nested_network_id = table[b].nested_network_id
         /\ table[a].nested_network_id # NoId) => a = b

(* network_addresses: CheckConstraint(network_id != nested_network_id). *)
ck_network_not_self(table) ==
    \A a \in DOMAIN table : table[a].network_id # table[a].nested_network_id

AddressConstraints(table) == uq_network_nested(table) /\ ck_network_not_self(table)

(* write_network up to its first await: the name pre-check. *)
write_network_check(c, name) ==
    /\ pending[c] = NoName
    /\ IF NetworksNamed(name) # {}
       THEN /\ response' = Resp("write_network", 422, NoId)
            /\ UNCHANGED pending
       ELSE /\ pending' = [pending EXCEPT ![c] = name]
            /\ UNCHANGED response
    /\ UNCHANGED <<networks, network_seq, addresses, address_seq, svcVars, polVars, auxVars, revVars, call, session, adaptor, depVars>>

(* write_network after the pre-check: BaseCRUD.create adds and commits. *)
write_network_create(c) ==
    /\ pending[c] # NoName
    /\ network_seq < MaxNetworks
    /\ LET id == network_seq + 1
           table == Insert(networks, id, [name |-> pending[c]])
       IN /\ network_seq' = id
          /\ IF uq_network_name(table)
             THEN /\ networks' = table
                  /\ response' = Resp("write_network", 201, id)
             ELSE /\ UNCHANGED networks
                  /\ response' = Resp("write_network", 500, NoId)
    /\ pending' = [pending EXCEPT ![c] = NoName]
    /\ UNCHANGED <<addresses, address_seq, svcVars, polVars, auxVars, revVars, call, session, adaptor, depVars>>

(* The listeners register_events() attaches to the Session: its body is     *)
(* `pass`.                                                                  *)
register_events == {}

(* handle_network: the dynamic policies that filter on the network get      *)
(* edited = True.  policy.edited = True sets an attribute that is no column *)
(* of Policy, and the call for the nesting networks is never awaited.       *)
handle_network(table, network_id) ==
    [d \in DOMAIN table |->
        IF network_id \in table[d].source_filters \cup table[d].destination_filters
        THEN [table[d] EXCEPT !.edited = TRUE] ELSE table[d]]

(* What a flush of a changed Network does to dynamic_policies. *)
after_flush(table, network_id) ==
    IF "after_flush" \in register_events THEN handle_network(table, network_id) ELSE table

put_network(id, name) ==
    /\ IF id \notin DOMAIN networks
       THEN /\ response' = Resp("put_network", 404, id)
            /\ UNCHANGED <<networks, dynamic_policies>>
       ELSE IF NetworksNamed(name) \ {id} # {}
       THEN /\ response' = Resp("put_network", 422, id)
            /\ UNCHANGED <<networks, dynamic_policies>>
       ELSE /\ networks' = [networks EXCEPT ![id].name = name]
            /\ dynamic_policies' = after_flush(dynamic_policies, id)
            /\ response' = Resp("put_network", 200, id)
    /\ UNCHANGED <<network_seq, addresses, address_seq, pending, targets, tests, test_seq,
                   dynamic_policy_seq, svcVars, polVars, revVars, call, session, adaptor, depVars>>

(* Addresses that nest network `id`. *)
NestingAddresses(id) == {a \in DOMAIN addresses : addresses[a].nested_network_id = id}

(* erase_network without its check for addresses that nest the network. *)
erase_network_unchecked(id) ==
    /\ IF id \notin DOMAIN networks
       THEN /\ response' = Resp("erase_network", 404, id)
            /\ UNCHANGED <<networks, addresses>>
       ELSE /\ networks' = Remove(networks, {id})
            /\ addresses' = Remove(addresses, {a \in DOMAIN addresses : addresses[a].network_id = id})
            /\ response' = Resp("erase_network", 200, id)
    /\ UNCHANGED <<network_seq, address_seq, pending, svcVars, polVars, auxVars, revVars, call, session, adaptor, depVars>>

(* Rows of the term/network association tables are foreign keys to          *)
(* networks.id that nothing deletes with the network.                        *)
TermsUsingNetwork(id) ==
    {t \in DOMAIN terms : id \in terms[t].source_networks \cup terms[t].destination_networks}

erase_network(id) ==
    /\ IF NestingAddresses(id) # {}
       THEN /\ response' = Resp("erase_network", 403, id)
            /\ UNCHANGED <<networks, addresses>>
       ELSE IF id \notin DOMAIN networks
       THEN /\ response' = Resp("erase_network", 404, id)
            /\ UNCHANGED <<networks, addresses>>
       ELSE IF TermsUsingNetwork(id) # {}
       THEN /\ response' = Resp("erase_network", 500, id)
            /\ UNCHANGED <<networks, addresses>>
       ELSE /\ networks' = Remove(networks, {id})
            /\ addresses' = Remove(addresses, {a \in DOMAIN addresses : addresses[a].network_id = id})
            /\ response' = Resp("erase_network", 200, id)
    /\ UNCHANGED <<network_seq, address_seq, pending, svcVars, polVars, auxVars, revVars, call, session, adaptor, depVars>>

(* Request bodies NetworkAddressCreate accepts: exactly one of the two. *)
NetworkAddressCreateValues ==
    [address : AddressInputs, nested_network_id : {NoId}]
        \cup [address : {NoAddress}, nested_network_id : 1..MaxNetworks]

write_network_address(network_id, values) ==
    /\ IF network_id \notin DOMAIN networks
       THEN /\ response' = Resp("write_network_address", 404, network_id)
            /\ UNCHANGED <<addresses, address_seq>>
       ELSE IF values.nested_network_id # NoId /\ values.nested_network_id \notin DOMAIN networks
       THEN /\ response' = Resp("write_network_address", 422, network_id)
            /\ UNCHANGED <<addresses, address_seq>>
       ELSE IF \E a \in DOMAIN addresses :
                   /\ addresses[a].address = values.address
                   /\ addresses[a].network_id = network_id
                   /\ addresses[a].nested_network_id = values.nested_network_id
       THEN /\ response' = Resp("write_network_address", 422, network_id)
            /\ UNCHANGED <<addresses, address_seq>>
       ELSE /\ address_seq < MaxAddresses
            /\ LET id == address_seq + 1
                   table == Insert(addresses, id,
                                   [network_id |-> network_id,
                                    address |-> values.address,
                                    nested_network_id |-> values.nested_network_id])
               IN /\ address_seq' = id
                  /\ IF AddressConstraints(table)
                     THEN /\ addresses' = table
                          /\ response' = Resp("write_network_address", 201, id)
                     ELSE /\ UNCHANGED addresses
                          /\ response' = Resp("write_network_address", 500, NoId)
    /\ UNCHANGED <<networks, network_seq, pending, svcVars, polVars, auxVars, revVars, call, session, adaptor, depVars>>

(* Request bodies NetworkAddressUpdate accepts, with the fields the request  *)
(* set: BaseCRUD.update writes model_dump(exclude_unset=True).               *)
NetworkAddressUpdateValues ==
    [address : AddressInputs, nested_network_id : {NoId},
     fields_set : {{"address"}, {"address", "nested_network_id"}}]
        \cup [address : {NoAddress}, nested_network_id : 1..MaxNetworks,
              fields_set : {{"nested_network_id"}}]

put_network_address(network_id, address_id, values) ==
    /\ IF network_id \notin DOMAIN networks
       THEN /\ response' = Resp("put_network_address", 404, network_id)
            /\ UNCHANGED addresses
       ELSE IF ~(address_id \in DOMAIN addresses /\ addresses[address_id].network_id = network_id)
       THEN /\ response' = Resp("put_network_address", 404, address_id)
            /\ UNCHANGED addresses
       ELSE IF values.nested_network_id # NoId /\ values.nested_network_id \notin DOMAIN networks
       THEN /\ response' = Resp("put_network_address", 422, address_id)
            /\ UNCHANGED addresses
       ELSE LET old == addresses[address_id]
                row == [network_id |-> old.network_id,
                        address |-> IF "address" \in values.fields_set
                                    THEN values.address ELSE old.address,
                        nested_network_id |-> IF "nested_network_id" \in values.fields_set
                                              THEN values.nested_network_id
                                              ELSE old.nested_network_id]
                table == [addresses EXCEPT ![address_id] = row]
            IN IF AddressConstraints(table)
               THEN /\ addresses' = table
                    /\ response' = Resp("put_network_address", 200, address_id)
               ELSE /\ UNCHANGED addresses
                    /\ response' = Resp("put_network_address", 500, address_id)
    /\ UNCHANGED <<networks, network_seq, address_seq, pending, svcVars, polVars, auxVars, revVars, call, session, adaptor, depVars>>

erase_network_address(network_id, address_id) ==
    /\ IF network_id \notin DOMAIN networks
       THEN /\ response' = Resp("erase_network_address", 404, network_id)
            /\ UNCHANGED addresses
       ELSE IF ~(address_id \in DOMAIN addresses /\ addresses[address_id].network_id = network_id)
       THEN /\ response' = Resp("erase_network_address", 404, address_id)
            /\ UNCHANGED addresses
       ELSE /\ addresses' = Remove(addresses, {address_id})
            /\ response' = Resp("erase_network_address", 200, address_id)
    /\ UNCHANGED <<networks, network_seq, address_seq, pending, svcVars, polVars, auxVars, revVars, call, session, adaptor, depVars>>

----------------------------------------------------------------------------
(* Services. *)

(* service_entries: UniqueConstraint(service_id, nested_service_id). *)
uq_service_entry_nested(table) ==
    \A a, b \in DOMAIN table :
        (/\ table[a].service_id = table[b].service_id
         /\ table[a].nested_service_id = table[b].nested_service_id
         /\ table[a].nested_service_id # NoId) => a = b

(* service_entries: CheckConstraint(service_id != nested_service_id). *)
ck_service_entry_nested_not_equal(table) ==
    \A a \in DOMAIN table : table[a].service_id # table[a].nested_service_id

(* service_entries.nested_service_id is a foreign key to services.id. *)
fk_service_entry_nested(table) ==
    \A a \in DOMAIN table :
        table[a].nested_service_id # NoId => table[a].nested_service_id \in DOMAIN services

EntryConstraints(table) ==
    /\ uq_service_entry_nested(table)
    /\ ck_service_entry_nested_not_equal(table)
    /\ fk_service_entry_nested(table)

(* Entries that nest service `id`. *)
NestingEntries(id) == {e \in DOMAIN entries : entries[e].nested_service_id = id}

erase_service(id) ==
    /\ IF NestingEntries(id) # {}
       THEN /\ response' = Resp("erase_service", 403, id)
            /\ UNCHANGED <<services, entries>>
       ELSE IF id \notin DOMAIN services
       THEN /\ response' = Resp("erase_service", 404, id)
            /\ UNCHANGED <<services, entries>>
       ELSE /\ services' = Remove(services, {id})
            /\ entries' = Remove(entries, {e \in DOMAIN entries : entries[e].service_id = id})
            /\ response' = Resp("erase_service", 200, id)
    /\ UNCHANGED <<service_seq, entry_seq, netVars, polVars, auxVars, revVars, call, session, adaptor, depVars>>

(* Request bodies ServiceEntryCreate accepts. *)
ServiceEntryCreateValues ==
    [protocol : {"tcp"}, port : PortInputs, nested_service_id : {NoId}]
        \cup [protocol : {Null}, port : {Null}, nested_service_id : 1..MaxServices]

write_entries(service_id, values) ==
    /\ IF service_id \notin DOMAIN services
       THEN /\ response' = Resp("write_entries", 404, service_id)
            /\ UNCHANGED <<entries, entry_seq>>
       ELSE IF values.nested_service_id # NoId /\ values.nested_service_id \notin DOMAIN services
       THEN /\ response' = Resp("write_entries", 422, service_id)
            /\ UNCHANGED <<entries, entry_seq>>
       ELSE IF \E e \in DOMAIN entries :
                   /\ entries[e].protocol = values.protocol
                   /\ entries[e].port = values.port
                   /\ entries[e].service_id = service_id
                   /\ entries[e].nested_service_id = values.nested_service_id
       THEN /\ response' = Resp("write_entries", 422, service_id)
            /\ UNCHANGED <<entries, entry_seq>>
       ELSE /\ entry_seq < MaxEntries
            /\ LET id == entry_seq + 1
                   table == Insert(entries, id,
                                   [service_id |-> service_id,
                                    protocol |-> values.protocol,
                                    port |-> values.port,
                                    nested_service_id |-> values.nested_service_id])
               IN /\ entry_seq' = id
                  /\ IF EntryConstraints(table)
                     THEN /\ entries' = table
                          /\ response' = Resp("write_entries", 201, id)
                     ELSE /\ UNCHANGED entries
                          /\ response' = Resp("write_entries", 500, NoId)
    /\ UNCHANGED <<services, service_seq, netVars, polVars, auxVars, revVars, call, session, adaptor, depVars>>

(* Request bodies ServiceEntryUpdate accepts, with the fields the request set. *)
ServiceEntryUpdateValues ==
    [protocol : {"tcp"}, port : PortInputs, nested_service_id : {NoId},
     fields_set : {{"protocol", "port"}, {"protocol", "port", "nested_service_id"}}]
        \cup [protocol : {Null}, port : {Null}, nested_service_id : 1..MaxServices,
              fields_set : {{"nested_service_id"}}]

put_service_entries(service_id, id, values) ==
    /\ IF service_id \notin DOMAIN services
       THEN /\ response' = Resp("put_service_entries", 404, service_id)
            /\ UNCHANGED entries
       ELSE IF ~(id \in DOMAIN entries /\ entries[id].service_id = service_id)
       THEN /\ response' = Resp("put_service_entries", 404, id)
            /\ UNCHANGED entries
       ELSE LET old == entries[id]
                set(f, new, prev) == IF f \in values.fields_set THEN new ELSE prev
                row == [service_id |-> old.service_id,
                        protocol |-> set("protocol", values.protocol, old.protocol),
                        port |-> set("port", values.port, old.port),
                        nested_service_id |-> set("nested_service_id", values.nested_service_id,
                                                  old.nested_service_id)]
                table == [entries EXCEPT ![id] = row]
            IN IF EntryConstraints(table)
               THEN /\ entries' = table
                    /\ response' = Resp("put_service_entries", 200, id)
               ELSE /\ UNCHANGED entries
                    /\ response' = Resp("put_service_entries", 500, id)
    /\ UNCHANGED <<services, service_seq, entry_seq, netVars, polVars, auxVars, revVars, call, session, adaptor, depVars>>

erase_service_entries(service_id, id) ==
    /\ IF service_id \notin DOMAIN services
       THEN /\ response' = Resp("erase_service_entries", 404, service_id)
            /\ UNCHANGED entries
       ELSE IF ~(id \in DOMAIN entries /\ entries[id].service_id = service_id)
       THEN /\ response' = Resp("erase_service_entries", 404, id)
            /\ UNCHANGED entries
       ELSE /\ entries' = Remove(entries, {id})
            /\ response' = Resp("erase_service_entries", 200, id)
    /\ UNCHANGED <<services, service_seq, entry_seq, netVars, polVars, auxVars, revVars, call, session, adaptor, depVars>>

----------------------------------------------------------------------------
(* core/utils/lexirank.py.  A rank is the sequence of its letters' offsets   *)
(* from "a".                                                                  *)

ALPHABET_SIZE == 26

RankFirst == <<0, 0, 0, 0, 0>>
RankLast == <<25, 25, 25, 25, 25>>
(* What a handler sees when get_rank_between's assertion fails. *)
AssertionError == << -1 >>

Max(a, b) == IF a >= b THEN a ELSE b
Min(a, b) == IF a <= b THEN a ELSE b

(* Python's str.__lt__. *)
RankLess(a, b) ==
    \E i \in 1..(Min(Len(a), Len(b)) + 1) :
        /\ \A j \in 1..(i - 1) : a[j] = b[j]
        /\ \/ i > Len(a) /\ i <= Len(b)
           \/ i <= Len(a) /\ i <= Len(b) /\ a[i] < b[i]

PadRank(r, n) == [i \in 1..n |-> IF i <= Len(r) THEN r[i] ELSE 0]

(* The first loop: the distance between the ranks, with the borrow the loop   *)
(* writes into second_position_codes[index - 1].                             *)
RECURSIVE RankDifference(_, _, _, _)
RankDifference(first, second, index, borrow) ==
    IF index = 0 THEN 0
    ELSE LET n == Len(first)
             code == second[index] - borrow
             wraps == code < first[index]
             second_code == IF wraps THEN code + ALPHABET_SIZE ELSE code
         IN (second_code - first[index]) * ALPHABET_SIZE ^ (n - index)
                + RankDifference(first, second, index - 1, IF wraps THEN 1 ELSE 0)

(* The second loop: first_rank plus half the distance, least significant      *)
(* letter first, the carry kept in offset.                                    *)
RECURSIVE RankAdd(_, _, _, _)
RankAdd(first, difference, index, offset) ==
    IF index = Len(first) THEN << >>
    ELSE LET diff_in_symbols == (difference \div ALPHABET_SIZE ^ index) % ALPHABET_SIZE
             code == first[Len(first) - index] + diff_in_symbols + offset
             over == code > ALPHABET_SIZE - 1
         IN RankAdd(first, difference, index + 1, IF over THEN 1 ELSE 0)
                \o << IF over THEN code - ALPHABET_SIZE ELSE code >>

(* get_rank_between with the whole distance added to first_rank. *)
get_rank_between_whole(first_rank, second_rank) ==
    IF ~RankLess(first_rank, second_rank) THEN AssertionError
    ELSE LET n == Max(Len(first_rank), Len(second_rank))
             first == PadRank(first_rank, n)
             second == PadRank(second_rank, n)
             difference == RankDifference(first, second, n, 0)
         IN IF difference <= 1
            THEN first \o << ALPHABET_SIZE \div 2 >>
            ELSE RankAdd(first, difference, 0, 0)

get_rank_between(first_rank, second_rank) ==
    IF ~RankLess(first_rank, second_rank) THEN AssertionError
    ELSE LET n == Max(Len(first_rank), Len(second_rank))
             first == PadRank(first_rank, n)
             second == PadRank(second_rank, n)
             difference == RankDifference(first, second, n, 0)
         IN IF difference <= 1
            THEN first \o << ALPHABET_SIZE \div 2 >>
            ELSE RankAdd(first, difference \div 2, 0, 0)

----------------------------------------------------------------------------
(* Policies and their terms. *)

PoliciesNamed(name) == {p \in DOMAIN policies : policies[p].name = name}

TermsOf(policy_id) == {t \in DOMAIN terms : terms[t].policy_id = policy_id}

(* Terms whose nested_policy_id is `policy_id`. *)
NestingTerms(policy_id) == {t \in DOMAIN terms : terms[t].nested_policy_id = policy_id}

(* policy.terms: the relationship is ordered by lex_order. *)
PolicyTerms(policy_id) ==
    LET ts == TermsOf(policy_id)
        before(t) == {u \in ts : RankLess(terms[u].lex_order, terms[t].lex_order)}
    IN [i \in 1..Cardinality(ts) |-> CHOOSE t \in ts : Cardinality(before(t)) = i - 1]

(* PolicyTerm.position: the 1-based place of the term among the terms of    *)
(* its policy sorted by lex_order.                                          *)
term_position(t) ==
    1 + Cardinality({u \in TermsOf(terms[t].policy_id) :
                        RankLess(terms[u].lex_order, terms[t].lex_order)})

(* select(PolicyTerm.lex_order) ... order_by(PolicyTerm.lex_order) *)
LexOrders(policy_id) ==
    LET ts == PolicyTerms(policy_id) IN [i \in DOMAIN ts |-> terms[ts[i]].lex_order]

(* policy_terms: UniqueConstraint(policy_id, lex_order). *)
uq_policy_lex_order(table) ==
    \A a, b \in DOMAIN table :
        (table[a].policy_id = table[b].policy_id /\ table[a].lex_order = table[b].lex_order)
            => a = b

(* policy_terms: UniqueConstraint(policy_id, name). *)
uq_policy_name(table) ==
    \A a, b \in DOMAIN table :
        (table[a].policy_id = table[b].policy_id /\ table[a].name = table[b].name) => a = b

TermConstraints(table) == uq_policy_lex_order(table) /\ uq_policy_name(table)

(* Request bodies PolicyCreate and PolicyUpdate accept. *)
PolicyValues(names, target_ids, test_ids) ==
    [name : names, targets : SUBSET target_ids, tests : SUBSET test_ids]

(* BaseCRUD._update_m2m_relationship, one list after the other, each        *)
(* committed on its own; a list naming a missing row raises 400.             *)
UpdatePolicyM2M(row, values) ==
    IF ~(values.targets \subseteq DOMAIN targets) THEN [row |-> row, status |-> 400]
    ELSE LET r1 == [row EXCEPT !.targets = values.targets]
         IN IF ~(values.tests \subseteq DOMAIN tests) THEN [row |-> r1, status |-> 400]
            ELSE [row |-> [r1 EXCEPT !.tests = values.tests], status |-> 0]

write_policy(values) ==
    /\ IF PoliciesNamed(values.name) # {}
       THEN /\ response' = Resp("write_policy", 422, NoId)
            /\ UNCHANGED <<policies, policy_seq>>
       ELSE /\ policy_seq < MaxPolicies
            /\ LET id == policy_seq + 1
                   m2m == UpdatePolicyM2M([name |-> values.name, targets |-> {}, tests |-> {}],
                                          values)
               IN /\ policy_seq' = id
                  /\ policies' = Insert(policies, id, m2m.row)
                  /\ response' = IF m2m.status = 0 THEN Resp("write_policy", 201, id)
                                 ELSE Resp("write_policy", m2m.status, id)
    /\ UNCHANGED <<terms, term_seq, netVars, svcVars, auxVars, revVars, call, session, adaptor, depVars>>

put_policy(id, values) ==
    /\ IF id \notin DOMAIN policies
       THEN /\ response' = Resp("put_policy", 404, id)
            /\ UNCHANGED policies
       ELSE LET m2m == UpdatePolicyM2M([policies[id] EXCEPT !.name = values.name], values)
            IN /\ policies' = [policies EXCEPT ![id] = m2m.row]
               /\ response' = IF m2m.status = 0 THEN Resp("put_policy", 200, id)
                              ELSE Resp("put_policy", m2m.status, id)
    /\ UNCHANGED <<policy_seq, terms, term_seq, netVars, svcVars, auxVars, revVars, call, session, adaptor, depVars>>

(* The revisions a policy owns: Policy.revisions, cascade "all, delete". *)
RevisionsOf(policy_id) == {r \in DOMAIN revisions : revisions[r].policy_id = policy_id}

(* The rows of a revision: Revision.configs, cascade "all, delete-orphan". *)
ConfigsOf(revision_ids) ==
    {c \in DOMAIN revision_configs : revision_configs[c].revision_id \in revision_ids}

(* Foreign keys to revisions.id that nothing deletes with the revision. *)
DeploymentsOf(revision_ids) ==
    {d \in DOMAIN deployments : deployments[d].revision_id \in revision_ids}

(* Foreign keys to policies.id that nothing deletes with the policy: the    *)
(* policy filters of the dynamic policies and the revisions' deployments.   *)
PolicyInUse(policy_id) ==
    \/ \E d \in DOMAIN dynamic_policies : policy_id \in dynamic_policies[d].policy_filters
    \/ DeploymentsOf(RevisionsOf(policy_id)) # {}

erase_policy(policy_id) ==
    /\ IF NestingTerms(policy_id) # {}
       THEN /\ response' = Resp("erase_policy", 403, policy_id)
            /\ UNCHANGED <<policies, terms, revisions, revision_configs>>
       ELSE IF policy_id \notin DOMAIN policies
       THEN /\ response' = Resp("erase_policy", 404, policy_id)
            /\ UNCHANGED <<policies, terms, revisions, revision_configs>>
       ELSE IF PolicyInUse(policy_id)
       THEN /\ response' = Resp("erase_policy", 500, policy_id)
            /\ UNCHANGED <<policies, terms, revisions, revision_configs>>
       ELSE /\ policies' = Remove(policies, {policy_id})
            /\ terms' = Remove(terms, TermsOf(policy_id))
            /\ revisions' = Remove(revisions, RevisionsOf(policy_id))
            /\ revision_configs' = Remove(revision_configs, ConfigsOf(RevisionsOf(policy_id)))
            /\ response' = Resp("erase_policy", 200, policy_id)
    /\ UNCHANGED <<policy_seq, term_seq, revision_seq, config_seq, revise, call, session, adaptor,
                   netVars, svcVars, auxVars, depVars>>

(* Request bodies the term endpoints accept.  check_exclusive_fields rejects  *)
(* a body that carries nested_policy_id together with a tactical field, so a *)
(* validated body is PolicyTermCreate/Update (tactical) or                   *)
(* PolicyTermNestedCreate/Update (nested).                                    *)
TacticalTermValues(names, enableds, actions, negates, network_ids, positions) ==
    [kind : {"tactical"}, name : names, enabled : enableds, action : actions,
     logging : {"False"}, negate_source_networks : negates,
     negate_destination_networks : negates, source_networks : SUBSET network_ids,
     destination_networks : SUBSET network_ids, position : positions]

NestedTermValues(names, enableds, policy_ids, positions) ==
    [kind : {"nested"}, name : names, enabled : enableds, nested_policy_id : policy_ids,
     position : positions]

(* The negate flags after the handlers' reset of a negation over no networks. *)
NegateSource(values) ==
    IF values.negate_source_networks = "True" /\ values.source_networks = {}
    THEN "False" ELSE values.negate_source_networks

NegateDestination(values) ==
    IF values.negate_destination_networks = "True" /\ values.destination_networks = {}
    THEN "False" ELSE values.negate_destination_networks

(* write_policy_term lines 179-195. *)
CreateLexOrder(lex_orders, requested) ==
    LET position == IF requested # 0 THEN requested ELSE 1
    IN IF Len(lex_orders) = 0 THEN get_rank_between(RankFirst, RankLast)
       ELSE IF position = 1 THEN get_rank_between(RankFirst, lex_orders[1])
       ELSE IF position > Len(lex_orders)
       THEN get_rank_between(lex_orders[Len(lex_orders)], RankLast)
       ELSE get_rank_between(lex_orders[position - 1], lex_orders[position])

(* put_policy_terms lines 322-334; the empty rank leaves lex_order alone. *)
UpdateLexOrder(lex_orders, position) ==
    IF position = 0 THEN << >>
    ELSE IF position = 1 THEN get_rank_between(RankFirst, lex_orders[1])
    ELSE IF position > Len(lex_orders)
    THEN get_rank_between(lex_orders[Len(lex_orders)], RankLast)
    ELSE get_rank_between(lex_orders[position - 1], lex_orders[position])

(* The row term_crud.create adds and commits, before the m2m lists. *)
NewTermRow(policy_id, values, lex_order) ==
    IF values.kind = "tactical"
    THEN [policy_id |-> policy_id, name |-> values.name, lex_order |-> lex_order,
          enabled |-> values.enabled, action |-> values.action, logging |-> values.logging,
          negate_source_networks |-> NegateSource(values),
          negate_destination_networks |-> NegateDestination(values),
          nested_policy_id |-> NoId, source_networks |-> {}, destination_networks |-> {}]
    ELSE [policy_id |-> policy_id, name |-> values.name, lex_order |-> lex_order,
          enabled |-> values.enabled, action |-> Null, logging |-> Null,
          negate_source_networks |-> Null, negate_destination_networks |-> Null,
          nested_policy_id |-> values.nested_policy_id,
          source_networks |-> {}, destination_networks |-> {}]

(* BaseCRUD.create's m2m step for a term. *)
UpdateTermM2M(row, values) ==
    IF values.kind = "nested" THEN [row |-> row, status |-> 0]
    ELSE IF ~(values.source_networks \subseteq DOMAIN networks)
    THEN [row |-> row, status |-> 400]
    ELSE LET r1 == [row EXCEPT !.source_networks = values.source_networks]
         IN IF ~(values.destination_networks \subseteq DOMAIN networks)
            THEN [row |-> r1, status |-> 400]
            ELSE [row |-> [r1 EXCEPT !.destination_networks = values.destination_networks],
                  status |-> 0]

write_policy_term(policy_id, values) ==
    /\ IF policy_id \notin DOMAIN policies
       THEN /\ response' = Resp("write_policy_term", 404, policy_id)
            /\ UNCHANGED <<terms, term_seq>>
       ELSE IF \E t \in TermsOf(policy_id) : terms[t].name = values.name
       THEN /\ response' = Resp("write_policy_term", 422, policy_id)
            /\ UNCHANGED <<terms, term_seq>>
       ELSE IF /\ values.kind = "nested"
               /\ \/ values.nested_policy_id \notin DOMAIN policies
                  \/ NestingTerms(values.nested_policy_id) \cap TermsOf(policy_id) # {}
       THEN /\ response' = Resp("write_policy_term", 422, policy_id)
            /\ UNCHANGED <<terms, term_seq>>
       ELSE LET new_lex_order == CreateLexOrder(LexOrders(policy_id), values.position)
            IN IF new_lex_order = AssertionError
               THEN /\ response' = Resp("write_policy_term", 500, policy_id)
                    /\ UNCHANGED <<terms, term_seq>>
               ELSE /\ term_seq < MaxTerms
                    /\ LET id == term_seq + 1
                           row == NewTermRow(policy_id, values, new_lex_order)
                           m2m == UpdateTermM2M(row, values)
                       IN /\ term_seq' = id
                          /\ IF ~TermConstraints(Insert(terms, id, row))
                             THEN /\ UNCHANGED terms
                                  /\ response' = Resp("write_policy_term", 500, NoId)
                             ELSE /\ terms' = Insert(terms, id, m2m.row)
                                  /\ response' =
                                         IF m2m.status = 0
                                         THEN Resp("write_policy_term", 201, id)
                                         ELSE Resp("write_policy_term", m2m.status, id)
    /\ UNCHANGED <<policies, policy_seq, netVars, svcVars, auxVars, revVars, call, session, adaptor, depVars>>

(* put_policy_terms, first commit: term_crud.update writes the body's own    *)
(* columns.                                                                  *)
TermAfterCrudUpdate(old, values) ==
    IF values.kind = "tactical"
    THEN [old EXCEPT
             !.name = values.name, !.enabled = values.enabled,
             !.action = values.action, !.logging = values.logging,
             !.negate_source_networks = NegateSource(values),
             !.negate_destination_networks = NegateDestination(values)]
    ELSE [old EXCEPT
             !.name = values.name, !.enabled = values.enabled,
             !.nested_policy_id = values.nested_policy_id]

(* put_policy_terms, second commit: the handler sets the relationship lists  *)
(* (and, for a nested body, action and logging) and the new lex_order.       *)
TermAfterHandler(row, values, new_lex_order) ==
    LET placed == IF new_lex_order = << >> THEN row
                  ELSE [row EXCEPT !.lex_order = new_lex_order]
    IN IF values.kind = "tactical"
       THEN [placed EXCEPT
                !.source_networks = values.source_networks \cap DOMAIN networks,
                !.destination_networks = values.destination_networks \cap DOMAIN networks]
       ELSE [placed EXCEPT
                !.source_networks = {}, !.destination_networks = {},
                !.action = Null, !.logging = Null]

put_policy_terms(policy_id, term_id, values) ==
    /\ IF policy_id \notin DOMAIN policies
       THEN /\ response' = Resp("put_policy_terms", 404, policy_id)
            /\ UNCHANGED terms
       ELSE IF term_id \notin TermsOf(policy_id)
       THEN /\ response' = Resp("put_policy_terms", 404, term_id)
            /\ UNCHANGED terms
       ELSE IF \E t \in TermsOf(policy_id) \ {term_id} : terms[t].name = values.name
       THEN /\ response' = Resp("put_policy_terms", 422, term_id)
            /\ UNCHANGED terms
       ELSE IF values.kind = "nested" /\ values.nested_policy_id \notin DOMAIN policies
       THEN /\ response' = Resp("put_policy_terms", 422, term_id)
            /\ UNCHANGED terms
       ELSE LET new_lex_order == UpdateLexOrder(LexOrders(policy_id), values.position)
                row1 == TermAfterCrudUpdate(terms[term_id], values)
                table1 == [terms EXCEPT ![term_id] = row1]
                table2 == [terms EXCEPT
                              ![term_id] = TermAfterHandler(row1, values, new_lex_order)]
            IN IF new_lex_order = AssertionError \/ ~TermConstraints(table1)
               THEN /\ response' = Resp("put_policy_terms", 500, term_id)
                    /\ UNCHANGED terms
               ELSE IF ~TermConstraints(table2)
               THEN /\ response' = Resp("put_policy_terms", 500, term_id)
                    /\ terms' = table1
               ELSE /\ terms' = table2
                    /\ response' = Resp("put_policy_terms", 200, term_id)
    /\ UNCHANGED <<policies, policy_seq, term_seq, netVars, svcVars, auxVars, revVars, call, session, adaptor, depVars>>

erase_policy_term(policy_id, term_id) ==
    /\ IF policy_id \notin DOMAIN policies
       THEN /\ response' = Resp("erase_policy_term", 404, policy_id)
            /\ UNCHANGED terms
       ELSE IF term_id \notin TermsOf(policy_id)
       THEN /\ response' = Resp("erase_policy_term", 404, term_id)
            /\ UNCHANGED terms
       ELSE /\ terms' = Remove(terms, {term_id})
            /\ response' = Resp("erase_policy_term", 200, term_id)
    /\ UNCHANGED <<policies, policy_seq, term_seq, netVars, svcVars, auxVars, revVars, call, session, adaptor, depVars>>

----------------------------------------------------------------------------
(* Deployments: POST /revisions/{id}/deploy, the arq queue, the worker      *)
(* hooks.                                                                   *)

DeployerModes == {"git", "netmiko", "proxmox_nft"}

(* deploy_revision's function_map.get(deployer.mode). *)
function_map(mode) ==
    CASE mode = "git" -> "deploy_git"
      [] mode = "netmiko" -> "deploy_netmiko"
      [] mode = "proxmox_nft" -> "deploy_proxmox_nft"
      [] OTHER -> Null

(* The elements of a set of ids as a list, in id order. *)
RECURSIVE Ascending(_)
Ascending(ids) ==
    IF ids = {} THEN << >>
    ELSE LET least == CHOOSE i \in ids : \A j \in ids : i <= j
         IN <<least>> \o Ascending(ids \ {least})

(* [config.target_id for config in revision.configs] *)
ConfigTargets(revision_id) ==
    LET cs == Ascending({c \in DOMAIN revision_configs :
                            revision_configs[c].revision_id = revision_id})
    IN [i \in DOMAIN cs |-> revision_configs[cs[i]].target_id]

(* deployer_crud.get_all(filter_by={"target_id": target_id}) *)
DeployersOf(target_id) ==
    Ascending({d \in DOMAIN deployers : deployers[d].target_id = target_id})

(* arq's enqueue_job: a job id that is queued, running or has a result is   *)
(* not enqueued again.                                                      *)
enqueue_job(queue, function, job_id, kwargs) ==
    IF job_id \in DOMAIN queue THEN queue
    ELSE Insert(queue, job_id,
                [function |-> function, kwargs |-> kwargs, state |-> "queued",
                 result |-> "none", job_try |-> 0])

(* deploy_revision up to the loop: the revision and its configs' targets. *)
deploy_revision_begin(id) ==
    /\ deploy.pc = "idle"
    /\ IF id \notin DOMAIN revisions
       THEN /\ response' = Resp("deploy_revision", 404, id)
            /\ UNCHANGED deploy
       ELSE /\ deploy' = [pc |-> "loop", id |-> id, target_ids |-> ConfigTargets(id),
                          deployers |-> << >>, deployment |-> NoId, deployment_ids |-> << >>]
            /\ UNCHANGED response
    /\ UNCHANGED <<deployers, deployments, deployment_seq, jobs, workers,
                   netVars, svcVars, polVars, auxVars, revVars, call, session, adaptor>>

(* The outer loop's next target: its deployers are read. *)
deploy_revision_deployers ==
    /\ deploy.pc = "loop" /\ deploy.deployers = << >> /\ deploy.target_ids # << >>
    /\ deploy' = [deploy EXCEPT !.deployers = DeployersOf(Head(deploy.target_ids)),
                                !.target_ids = Tail(deploy.target_ids)]
    /\ UNCHANGED <<deployers, deployments, deployment_seq, jobs, workers, response,
                   netVars, svcVars, polVars, auxVars, revVars, call, session, adaptor>>

(* The inner loop's next deployer: its Deployment is added and committed. *)
deploy_revision_commit ==
    /\ deploy.pc = "loop" /\ deploy.deployers # << >>
    /\ LET id == deployment_seq + 1
           deployer_id == Head(deploy.deployers)
       IN /\ deployment_seq' = id
          /\ IF deployer_id \in DOMAIN deployers /\ deploy.id \in DOMAIN revisions
             THEN /\ deployments' = Insert(deployments, id,
                                           [deployer_id |-> deployer_id,
                                            revision_id |-> deploy.id,
                                            status |-> "pending", output |-> Null])
                  /\ deploy' = [deploy EXCEPT !.pc = "enqueue", !.deployment = id]
                  /\ UNCHANGED response
             ELSE /\ response' = Resp("deploy_revision", 500, deploy.id)
                  /\ deploy' = NoRequest
                  /\ UNCHANGED deployments
    /\ UNCHANGED <<deployers, jobs, workers, netVars, svcVars, polVars, auxVars, revVars, call, session, adaptor>>

(* deploy_revision_enqueue with the job keyed by the deployer's id. *)
deploy_revision_enqueue_by_deployer ==
    /\ deploy.pc = "enqueue"
    /\ LET deployer_id == Head(deploy.deployers)
       IN jobs' = enqueue_job(jobs, function_map(deployers[deployer_id].mode),
                              deployer_id,
                              [revision_id |-> deploy.id, deployer_id |-> deployer_id,
                               deployment_id |-> deploy.deployment])
    /\ deploy' = [deploy EXCEPT !.pc = "loop", !.deployers = Tail(deploy.deployers),
                                !.deployment = NoId,
                                !.deployment_ids = Append(deploy.deployment_ids, deploy.deployment)]
    /\ UNCHANGED <<deployers, deployments, deployment_seq, workers, response,
                   netVars, svcVars, polVars, auxVars, revVars, call, session, adaptor>>

(* The job of the Deployment just committed is enqueued under its id. *)
deploy_revision_enqueue ==
    /\ deploy.pc = "enqueue"
    /\ LET deployer_id == Head(deploy.deployers)
       IN jobs' = enqueue_job(jobs, function_map(deployers[deployer_id].mode),
                              deploy.deployment,
                              [revision_id |-> deploy.id, deployer_id |-> deployer_id,
                               deployment_id |-> deploy.deployment])
    /\ deploy' = [deploy EXCEPT !.pc = "loop", !.deployers = Tail(deploy.deployers),
                                !.deployment = NoId,
                                !.deployment_ids = Append(deploy.deployment_ids, deploy.deployment)]
    /\ UNCHANGED <<deployers, deployments, deployment_seq, workers, response,
                   netVars, svcVars, polVars, auxVars, revVars, call, session, adaptor>>

(* After the loops: 404 when no deployment was started. *)
deploy_revision_end ==
    /\ deploy.pc = "loop" /\ deploy.deployers = << >> /\ deploy.target_ids = << >>
    /\ response' = IF deploy.deployment_ids = << >>
                   THEN Resp("deploy_revision", 404, deploy.id)
                   ELSE Resp("deploy_revision", 201, deploy.id)
    /\ deploy' = NoRequest
    /\ UNCHANGED <<deployers, deployments, deployment_seq, jobs, workers,
                   netVars, svcVars, polVars, auxVars, revVars, call, session, adaptor>>

(* arq takes a queued job, counts the try and calls on_job_start =          *)
(* job_startup: the job's Deployment is set to running.                     *)
job_startup(w, job_id) ==
    /\ workers[w].pc = "idle"
    /\ job_id \in DOMAIN jobs /\ jobs[job_id].state = "queued"
    /\ jobs[job_id].job_try < MaxTries
    /\ LET deployment_id == jobs[job_id].kwargs.deployment_id
       IN IF deployment_id \notin DOMAIN deployments
          THEN /\ jobs' = [jobs EXCEPT ![job_id].job_try = @ + 1]
               /\ UNCHANGED <<deployments, workers>>
          ELSE /\ jobs' = [jobs EXCEPT ![job_id].job_try = @ + 1,
                                       ![job_id].state = "in_progress"]
               /\ deployments' = [deployments EXCEPT ![deployment_id].status = "running"]
               /\ workers' = [workers EXCEPT
                                 ![w] = [pc |-> "started", job_id |-> job_id,
                                         deployment |-> deployment_id]]
    /\ UNCHANGED <<deployers, deployment_seq, deploy, response,
                   netVars, svcVars, polVars, auxVars, revVars, call, session, adaptor>>

JobOutcomes == {"returned", "raised", "cancelled"}

(* The deploy function runs and arq records how it ended: a result with     *)
(* success set when it returned, a result without when it raised, no result *)
(* and the job back in the queue when it was cancelled.                     *)
run_job(w, outcome) ==
    /\ workers[w].pc = "started"
    /\ jobs' = [jobs EXCEPT
                   ![workers[w].job_id] =
                       IF outcome = "cancelled" THEN [@ EXCEPT !.state = "queued"]
                       ELSE [@ EXCEPT !.state = "complete",
                                      !.result = IF outcome = "returned"
                                                 THEN "success" ELSE "failure"]]
    /\ workers' = [workers EXCEPT ![w].pc = "ended"]
    /\ UNCHANGED <<deployers, deployments, deployment_seq, deploy, response,
                   netVars, svcVars, polVars, auxVars, revVars, call, session, adaptor>>

(* job_shutdown that does not look at job_def.success. *)
job_shutdown_always_completed(w) ==
    /\ workers[w].pc = "ended"
    /\ LET job_def == jobs[workers[w].job_id]
           deployment_id == workers[w].deployment
       IN IF job_def.result = "none" \/ deployment_id \notin DOMAIN deployments
          THEN UNCHANGED deployments
          ELSE deployments' =
                   [deployments EXCEPT
                       ![deployment_id].status = "completed",
                       ![deployment_id].output = LogOutput]
    /\ workers' = [workers EXCEPT ![w] = IdleWorker]
    /\ UNCHANGED <<deployers, deployment_seq, jobs, deploy, response,
                   netVars, svcVars, polVars, auxVars, revVars, call, session, adaptor>>

(* after_job_end = job_shutdown: status and output are set on the           *)
(* Deployment kept in ctx and committed together.  A job without a result   *)
(* has no success attribute: the hook raises before it writes.              *)
job_shutdown(w) ==
    /\ workers[w].pc = "ended"
    /\ LET job_def == jobs[workers[w].job_id]
           deployment_id == workers[w].deployment
       IN IF job_def.result = "none" \/ deployment_id \notin DOMAIN deployments
          THEN UNCHANGED deployments
          ELSE deployments' =
                   [deployments EXCEPT
                       ![deployment_id].status =
                           IF job_def.result = "success" THEN "completed" ELSE "failed",
                       ![deployment_id].output = LogOutput]
    /\ workers' = [workers EXCEPT ![w] = IdleWorker]
    /\ UNCHANGED <<deployers, deployment_seq, jobs, deploy, response,
                   netVars, svcVars, polVars, auxVars, revVars, call, session, adaptor>>

----------------------------------------------------------------------------
(* Negated networks (core/utils/generate.py): the IPv4 space without the    *)
(* networks of a negated term.                                              *)

(* ip_network("0.0.0.0/0") *)
IPv4Space == <<0, 0>>

(* The networks ip_network accepts: the base has no host bits set. *)
Cidrs ==
    {<<base, prefixlen>> : base \in 0..(2 ^ AddressBits - 1), prefixlen \in 0..AddressBits} \cap
    {net \in (0..(2 ^ AddressBits - 1)) \X (0..AddressBits) :
        net[1] % (2 ^ (AddressBits - net[2])) = 0}

(* ipaddress: a.subnet_of(b) *)
subnet_of(a, b) ==
    /\ b[2] <= a[2]
    /\ a[1] \div (2 ^ (AddressBits - b[2])) = b[1] \div (2 ^ (AddressBits - b[2]))

(* ipaddress: net.subnets(), the two halves of a network. *)
subnets(net) ==
    <<<<net[1], net[2] + 1>>, <<net[1] + 2 ^ (AddressBits - net[2] - 1), net[2] + 1>>>>

(* ipaddress: net.address_exclude(other) for other.subnet_of(net): the      *)
(* half without `other`, then what the other half leaves, and so on.        *)
RECURSIVE address_exclude(_, _)
address_exclude(net, other) ==
    IF net = other THEN << >>
    ELSE LET s1 == subnets(net)[1]
             s2 == subnets(net)[2]
         IN IF subnet_of(other, s1) THEN <<s2>> \o address_exclude(s1, other)
            ELSE <<s1>> \o address_exclude(s2, other)

(* One round of the loop over remaining_networks[main_net]. *)
RECURSIVE new_remaining(_, _)
new_remaining(remaining, exclude) ==
    IF remaining = << >> THEN << >>
    ELSE LET net == Head(remaining)
         IN (IF subnet_of(exclude, net) THEN address_exclude(net, exclude) ELSE <<net>>)
            \o new_remaining(Tail(remaining), exclude)

RECURSIVE remaining_networks(_, _)
remaining_networks(remaining, excluded_networks) ==
    IF excluded_networks = << >> THEN remaining
    ELSE remaining_networks(new_remaining(remaining, Head(excluded_networks)),
                            Tail(excluded_networks))

(* exclude_networks: the main network is there only when a network of its   *)
(* version is excluded.                                                     *)
exclude_networks(excluded_networks) ==
    LET main_networks == IF excluded_networks # << >> THEN <<IPv4Space>> ELSE << >>
    IN remaining_networks(main_networks, excluded_networks)

(* A call of exclude_networks and its return. *)
call_exclude_networks ==
    /\ call.pc = "called" /\ call.function = "exclude_networks"
    /\ call' = [call EXCEPT !.pc = "returned",
                            !.result = exclude_networks(call.arguments[1])]
    /\ UNCHANGED <<netVars, svcVars, polVars, auxVars, revVars, depVars, session, adaptor,
                   response>>

----------------------------------------------------------------------------
(* Term resolution: nested policies (core/utils/generate.py) and the        *)
(* filters of a dynamic policy (api/v1/revisions.py).                       *)

(* A recursion that does not end raises RecursionError; a result is         *)
(* [ok, value].                                                             *)
Ok(value) == [ok |-> TRUE, value |-> value]
RecursionError(empty) == [ok |-> FALSE, value |-> empty]

(* PostgreSQL's && on two cidr values: the shorter prefix covers the other. *)
Overlaps(a, b) ==
    LET shift == 2 ^ (AddressBits - Min(a[2], b[2]))
    IN (a[1] \div shift) = (b[1] \div shift)

(* network.addresses *)
NetworkAddresses(network_id) ==
    {a \in DOMAIN addresses : addresses[a].network_id = network_id}

(* fetch_addresses: the leaf addresses of the networks and, level by level, *)
(* of the networks they nest; `depth` counts the levels still allowed.      *)
RECURSIVE fetch_addresses(_, _, _)
fetch_addresses(network_ids, return_networks, depth) ==
    LET db_networks == network_ids \cap DOMAIN networks
        rows == UNION {NetworkAddresses(n) : n \in db_networks}
        leaves == {addresses[a].address : a \in {r \in rows : addresses[r].address # NoAddress}}
        nested_ids == {addresses[a].nested_network_id :
                          a \in {r \in rows : addresses[r].address = NoAddress}}
    IN IF nested_ids = {} THEN Ok(return_networks \cup leaves)
       ELSE IF depth = 0 THEN RecursionError({})
       ELSE fetch_addresses(nested_ids, return_networks \cup leaves, depth - 1)

(* fetch_nested_networks: the networks that nest the given ones, upwards. *)
RECURSIVE fetch_nested_networks(_, _, _)
fetch_nested_networks(network_ids, nested_networks, depth) ==
    LET found == {a \in DOMAIN addresses : addresses[a].nested_network_id \in network_ids}
        next_network_ids == {addresses[a].network_id : a \in found}
    IN IF found = {} THEN Ok(nested_networks)
       ELSE IF depth = 0 THEN RecursionError({})
       ELSE fetch_nested_networks(next_network_ids, nested_networks \cup next_network_ids,
                                  depth - 1)

(* fetch_networks: the networks made only of addresses that overlap the     *)
(* filter, and the networks nesting them that nest nothing else.            *)
fetch_networks(filter_networks) ==
    LET network_addresses ==
            {a \in DOMAIN addresses :
                /\ addresses[a].nested_network_id = NoId
                /\ addresses[a].address # NoAddress
                /\ \E f \in filter_networks : Overlaps(addresses[a].address, f)}
        network_ids == {addresses[a].network_id : a \in network_addresses} \cap DOMAIN networks
        full_networks == {n \in network_ids : NetworkAddresses(n) \subseteq network_addresses}
        nested == fetch_nested_networks(full_networks, {}, Cardinality(DOMAIN networks))
        full_nested_networks ==
            {n \in nested.value \cap DOMAIN networks :
                {addresses[a].nested_network_id : a \in NetworkAddresses(n)}
                    \subseteq (network_ids \cup nested.value)}
    IN IF nested.ok THEN Ok(full_networks \cup full_nested_networks) ELSE RecursionError({})

(* A call of fetch_networks and its return. *)
call_fetch_networks ==
    /\ call.pc = "called" /\ call.function = "fetch_networks"
    /\ call' = [call EXCEPT !.pc = "returned", !.result = fetch_networks(call.arguments[1])]
    /\ UNCHANGED <<netVars, svcVars, polVars, auxVars, revVars, depVars, session, adaptor,
                   response>>

(* TermSelected with the negation flags ignored: a side with networks       *)
(* matches when one of them is in the set.                                  *)
TermSelectedUnnegated(t, source_network_ids, destination_network_ids, policy_ids, filter_action) ==
    LET row == terms[t]
        Condition(list, ids) == list = {} \/ ids = {} \/ list \cap ids # {}
    IN /\ Condition(row.source_networks, source_network_ids)
       /\ Condition(row.destination_networks, destination_network_ids)
       /\ policy_ids # {} => row.policy_id \in policy_ids
       /\ filter_action # Null => row.action = filter_action

(* The WHERE clause of fetch_terms, over the rows of the term joined with   *)
(* its source and its destination associations (NoId: no association).      *)
TermSelected(t, source_network_ids, destination_network_ids, policy_ids, filter_action) ==
    LET row == terms[t]
        SourceRows == IF row.source_networks = {} THEN {NoId} ELSE row.source_networks
        DestinationRows ==
            IF row.destination_networks = {} THEN {NoId} ELSE row.destination_networks
        Condition(network_id, negate, ids) ==
            \/ network_id = NoId
            \/ ids = {}
            \/ negate = "False" /\ network_id \in ids
            \/ negate = "True" /\ network_id \notin ids
    IN /\ \E s \in SourceRows : Condition(s, row.negate_source_networks, source_network_ids)
       /\ \E d \in DestinationRows :
              Condition(d, row.negate_destination_networks, destination_network_ids)
       /\ policy_ids # {} => row.policy_id \in policy_ids
       /\ filter_action # Null => row.action = filter_action

RECURSIVE TermsInOrder(_)
(* order_by(PolicyTerm.policy_id.asc(), PolicyTerm.lex_order.asc()) *)
TermsInOrder(policy_ids) ==
    IF policy_ids = << >> THEN << >>
    ELSE PolicyTerms(Head(policy_ids)) \o TermsInOrder(Tail(policy_ids))

fetch_terms(source_networks, destination_networks, policy_ids, filter_action) ==
    LET Selected(t) ==
            TermSelected(t, source_networks, destination_networks, policy_ids, filter_action)
    IN SelectSeq(TermsInOrder(Ascending({terms[t].policy_id : t \in DOMAIN terms})), Selected)

(* fetch_terms of core/utils/dynamic_policy_helpers.py, the copy the test   *)
(* run imports: the terms in id order, customized, detached from the       *)
(* session.                                                                 *)

(* order_by(PolicyTerm.policy_id.asc(), PolicyTerm.id.asc()) *)
RECURSIVE TermsById(_)
TermsById(ids) ==
    IF ids = {} THEN << >>
    ELSE LET first == CHOOSE t \in ids :
                        \A u \in ids :
                            \/ terms[t].policy_id < terms[u].policy_id
                            \/ terms[t].policy_id = terms[u].policy_id /\ t <= u
         IN <<first>> \o TermsById(ids \ {first})

(* A loaded PolicyTerm object: its id and its two relationship lists. *)
LoadedTerm(t) ==
    [id |-> t, source_networks |-> terms[t].source_networks,
     destination_networks |-> terms[t].destination_networks]

(* The objects a query adds to the session: the identity map keeps the      *)
(* object of a row that is loaded already.                                  *)
Load(sess, ids) ==
    [t \in DOMAIN sess \cup ids |-> IF t \in DOMAIN sess THEN sess[t] ELSE LoadedTerm(t)]

(* Session.expunge left out: the object stays attached. *)
expunge_nothing(sess, t) == sess

(* Session.expunge: the object is no longer attached to the session. *)
expunge(sess, t) == [u \in DOMAIN sess \ {t} |-> sess[u]]

(* The body of the loop over the selected terms: the four cases of empty    *)
(* and non-empty sides.                                                     *)
customized_term(term, source_network_ids, destination_network_ids) ==
    LET source == IF source_network_ids # {}
                  THEN term.source_networks \cap source_network_ids
                  ELSE term.source_networks
        destination == IF destination_network_ids # {}
                       THEN term.destination_networks \cap destination_network_ids
                       ELSE term.destination_networks
    IN IF term.source_networks = {} /\ term.destination_networks = {} THEN term
       ELSE IF term.source_networks = {} /\ term.destination_networks # {}
       THEN [term EXCEPT !.destination_networks = destination]
       ELSE IF term.source_networks # {} /\ term.destination_networks # {}
       THEN [term EXCEPT !.source_networks = source, !.destination_networks = destination]
       ELSE [term EXCEPT !.source_networks = source]

(* The loop: each term is expunged and then assigned to; an object that is  *)
(* still attached carries the assignment in the session.                    *)
RECURSIVE customized_terms(_, _, _, _)
customized_terms(term_list, sess, source_network_ids, destination_network_ids) ==
    IF term_list = << >> THEN [terms |-> << >>, session |-> sess]
    ELSE LET t == Head(term_list)
             term == customized_term(sess[t], source_network_ids, destination_network_ids)
             expunged == expunge(sess, t)
             assigned == [u \in DOMAIN expunged |-> IF u = t THEN term ELSE expunged[u]]
             rest == customized_terms(Tail(term_list), assigned, source_network_ids,
                                      destination_network_ids)
         IN [terms |-> <<term>> \o rest.terms, session |-> rest.session]

(* fetch_terms of dynamic_policy_helpers: the query, then the loop. *)
fetch_customized_terms(sess, source_network_ids, destination_network_ids, policy_ids, filter_action) ==
    LET selected == {t \in DOMAIN terms :
                        TermSelected(t, source_network_ids, destination_network_ids,
                                     policy_ids, filter_action)}
    IN customized_terms(TermsById(selected), Load(sess, selected), source_network_ids,
                        destination_network_ids)

(* get_expanded_terms with the terms of a nested policy put after the rest  *)
(* of the list, not in the place of the term that nests it.                 *)
RECURSIVE get_expanded_terms_appended(_, _)
get_expanded_terms_appended(term_list, depth) ==
    IF term_list = << >> THEN Ok(<< >>)
    ELSE LET term == terms[Head(term_list)]
             nested == term.nested_policy_id # NoId
             first == IF ~nested THEN Ok(<<Head(term_list)>>)
                      ELSE IF term.nested_policy_id \notin DOMAIN policies THEN Ok(<< >>)
                      ELSE IF depth = 0 THEN RecursionError(<< >>)
                      ELSE get_expanded_terms_appended(PolicyTerms(term.nested_policy_id),
                                                       depth - 1)
             rest == get_expanded_terms_appended(Tail(term_list), depth)
         IN IF first.ok /\ rest.ok
            THEN Ok(IF nested THEN rest.value \o first.value
                    ELSE first.value \o rest.value)
            ELSE RecursionError(<< >>)

(* get_expanded_terms: a term that nests a policy is replaced by that        *)
(* policy's expanded terms; a nested policy that is gone is skipped.         *)
RECURSIVE get_expanded_terms(_, _)
get_expanded_terms(term_list, depth) ==
    IF term_list = << >> THEN Ok(<< >>)
    ELSE LET term == terms[Head(term_list)]
             first == IF term.nested_policy_id = NoId THEN Ok(<<Head(term_list)>>)
                      ELSE IF term.nested_policy_id \notin DOMAIN policies THEN Ok(<< >>)
                      ELSE IF depth = 0 THEN RecursionError(<< >>)
                      ELSE get_expanded_terms(PolicyTerms(term.nested_policy_id), depth - 1)
             rest == get_expanded_terms(Tail(term_list), depth)
         IN IF first.ok /\ rest.ok THEN Ok(first.value \o rest.value)
            ELSE RecursionError(<< >>)

(* The networks and the terms found for the addresses of the filters. *)
ResolveTerms(source_addresses, destination_addresses, policy_ids, filter_action) ==
    LET source_networks ==
            IF source_addresses # {} THEN fetch_networks(source_addresses) ELSE Ok({})
        destination_networks ==
            IF destination_addresses # {} THEN fetch_networks(destination_addresses)
            ELSE Ok({})
    IN IF source_networks.ok /\ destination_networks.ok
       THEN Ok(fetch_terms(source_networks.value, destination_networks.value, policy_ids,
                           filter_action))
       ELSE RecursionError(<< >>)

(* The terms write_revision resolves for a dynamic policy. *)
DynamicPolicyTerms(dynamic_policy) ==
    LET depth == Cardinality(DOMAIN networks)
        source_addresses ==
            IF dynamic_policy.source_filters # {}
            THEN fetch_addresses(dynamic_policy.source_filters, {}, depth) ELSE Ok({})
        destination_addresses ==
            IF dynamic_policy.destination_filters # {}
            THEN fetch_addresses(dynamic_policy.destination_filters, {}, depth) ELSE Ok({})
        policy_ids == dynamic_policy.policy_filters \cap DOMAIN policies
    IN IF source_addresses.ok /\ destination_addresses.ok
       THEN ResolveTerms(source_addresses.value, destination_addresses.value, policy_ids,
                         dynamic_policy.filter_action)
       ELSE RecursionError(<< >>)

(* The terms get_tests_run resolves for a dynamic policy: the same steps    *)
(* with fetch_addresses, fetch_networks and fetch_terms imported from       *)
(* dynamic_policy_helpers.                                                  *)
TestDynamicPolicyTerms(dynamic_policy) ==
    LET depth == Cardinality(DOMAIN networks)
        source_addresses ==
            IF dynamic_policy.source_filters # {}
            THEN fetch_addresses(dynamic_policy.source_filters, {}, depth) ELSE Ok({})
        destination_addresses ==
            IF dynamic_policy.destination_filters # {}
            THEN fetch_addresses(dynamic_policy.destination_filters, {}, depth) ELSE Ok({})
        source_networks ==
            IF source_addresses.value # {} THEN fetch_networks(source_addresses.value)
            ELSE Ok({})
        destination_networks ==
            IF destination_addresses.value # {}
            THEN fetch_networks(destination_addresses.value) ELSE Ok({})
        policy_ids == dynamic_policy.policy_filters \cap DOMAIN policies
    IN IF /\ source_addresses.ok /\ destination_addresses.ok
          /\ source_networks.ok /\ destination_networks.ok
       THEN Ok(fetch_customized_terms(NoSession, source_networks.value,
                                      destination_networks.value, policy_ids,
                                      dynamic_policy.filter_action).terms)
       ELSE RecursionError(<< >>)

(* The filter over the whole address space in the place of a filter: a side *)
(* that is not filtered stays so.                                           *)
FullFilter(filter_networks) == IF filter_networks = {} THEN {} ELSE {IPv4Space}

(* Two calls of the resolver on the same rows: with the filters given and   *)
(* with the filters over the whole address space.                           *)
call_resolver ==
    /\ call.pc = "called" /\ call.function = "fetch_terms"
    /\ LET source_addresses == call.arguments[1]
           destination_addresses == call.arguments[2]
       IN call' = [call EXCEPT
                      !.pc = "returned",
                      !.result = [filtered |-> ResolveTerms(source_addresses,
                                                            destination_addresses, {}, Null),
                                  full |-> ResolveTerms(FullFilter(source_addresses),
                                                        FullFilter(destination_addresses),
                                                        {}, Null)]]
    /\ UNCHANGED <<netVars, svcVars, polVars, auxVars, revVars, depVars, session, adaptor,
                   response>>

(* The terms of a policy as write_revision and get_tests_run expand them. *)
PolicyExpandedTerms(policy_id) ==
    get_expanded_terms(PolicyTerms(policy_id), Cardinality(DOMAIN policies))

----------------------------------------------------------------------------
(* Tests, dynamic policies and revisions. *)

TestsNamed(name) == {t \in DOMAIN tests : tests[t].name = name}

(* A test case with no source, destination, port or protocol: run_tests     *)
(* passes "any" for each.                                                   *)
TestCaseValues == [expected_action : {"accept", "deny"}]

(* Request bodies TestCreate and TestUpdate accept. *)
TestValues(names, policy_ids, dynamic_policy_ids) ==
    [name : names, policies : SUBSET policy_ids, dynamic_policies : SUBSET dynamic_policy_ids,
     cases : {<< >>} \cup {<<c>> : c \in TestCaseValues}]

(* test.policies = fetched_policies, on the association table. *)
SetTestPolicies(table, test_id, fetched) ==
    [p \in DOMAIN table |->
        [table[p] EXCEPT !.tests = IF p \in fetched THEN @ \cup {test_id} ELSE @ \ {test_id}]]

write_test(values) ==
    /\ IF TestsNamed(values.name) # {}
       THEN /\ response' = Resp("write_test", 422, NoId)
            /\ UNCHANGED <<tests, test_seq, policies, dynamic_policies>>
       ELSE /\ test_seq < MaxTests
            /\ LET id == test_seq + 1
               IN /\ test_seq' = id
                  /\ tests' = Insert(tests, id, [name |-> values.name, cases |-> values.cases])
                  /\ policies' = SetTestPolicies(policies, id, values.policies)
                  /\ dynamic_policies' =
                         SetTestPolicies(dynamic_policies, id, values.dynamic_policies)
                  /\ response' = Resp("write_test", 201, id)
    /\ UNCHANGED <<policy_seq, terms, term_seq, targets, dynamic_policy_seq,
                   netVars, svcVars, revVars, call, session, adaptor, depVars>>

put_test(test_id, values) ==
    /\ IF test_id \notin DOMAIN tests
       THEN /\ response' = Resp("put_test", 404, test_id)
            /\ UNCHANGED <<tests, policies, dynamic_policies>>
       ELSE IF TestsNamed(values.name) \ {test_id} # {}
       THEN /\ response' = Resp("put_test", 422, test_id)
            /\ UNCHANGED <<tests, policies, dynamic_policies>>
       ELSE /\ tests' = [tests EXCEPT ![test_id] =
                            [name |-> values.name, cases |-> values.cases]]
            /\ policies' = SetTestPolicies(policies, test_id, values.policies)
            /\ dynamic_policies' =
                   SetTestPolicies(dynamic_policies, test_id, values.dynamic_policies)
            /\ response' = Resp("put_test", 200, test_id)
    /\ UNCHANGED <<test_seq, policy_seq, terms, term_seq, targets, dynamic_policy_seq,
                   netVars, svcVars, revVars, call, session, adaptor, depVars>>

(* Request bodies DynamicPolicyCreate and DynamicPolicyUpdate accept. *)
DynamicPolicyValues(names, filter_actions, target_ids, network_ids, policy_ids) ==
    [name : names, filter_action : filter_actions, default_action : {Null},
     targets : SUBSET target_ids, tests : {{}}, source_filters : SUBSET network_ids,
     destination_filters : {{}}, policy_filters : SUBSET policy_ids]

(* BaseCRUD._update_m2m_relationship for one list of a dynamic policy. *)
UpdateM2M(acc, field, related_ids, related_table) ==
    IF acc.status # 0 THEN acc
    ELSE IF ~(related_ids \subseteq DOMAIN related_table) THEN [acc EXCEPT !.status = 400]
    ELSE [acc EXCEPT !.row = [acc.row EXCEPT ![field] = related_ids]]

(* The lists in the order model_dump yields them. *)
UpdateDynamicPolicyM2M(row, values) ==
    LET a0 == [row |-> row, status |-> 0]
        a1 == UpdateM2M(a0, "targets", values.targets, targets)
        a2 == UpdateM2M(a1, "tests", values.tests, tests)
        a3 == UpdateM2M(a2, "source_filters", values.source_filters, networks)
        a4 == UpdateM2M(a3, "destination_filters", values.destination_filters, networks)
    IN UpdateM2M(a4, "policy_filters", values.policy_filters, policies)

(* POST /dynamic_policies: dynamic_policy_crud.create(extra_data edited). *)
write_dynamic_policy(values) ==
    /\ dynamic_policy_seq < MaxDynamicPolicies
    /\ LET id == dynamic_policy_seq + 1
           row == [name |-> values.name, edited |-> TRUE,
                   filter_action |-> values.filter_action,
                   default_action |-> values.default_action,
                   targets |-> {}, tests |-> {}, source_filters |-> {},
                   destination_filters |-> {}, policy_filters |-> {}]
           m2m == UpdateDynamicPolicyM2M(row, values)
       IN /\ dynamic_policy_seq' = id
          /\ dynamic_policies' = Insert(dynamic_policies, id, m2m.row)
          /\ response' = IF m2m.status = 0 THEN Resp("write_dynamic_policy", 201, id)
                         ELSE Resp("write_dynamic_policy", m2m.status, id)
    /\ UNCHANGED <<targets, tests, test_seq, netVars, svcVars, polVars, revVars, call, session, adaptor, depVars>>

(* PUT /dynamic_policies/{id}: dynamic_policy_crud.update(extra_data edited). *)
put_dynamic_policy(dynamic_policy_id, values) ==
    /\ IF dynamic_policy_id \notin DOMAIN dynamic_policies
       THEN /\ response' = Resp("put_dynamic_policy", 404, dynamic_policy_id)
            /\ UNCHANGED dynamic_policies
       ELSE LET row == [dynamic_policies[dynamic_policy_id] EXCEPT
                           !.name = values.name, !.edited = TRUE,
                           !.filter_action = values.filter_action,
                           !.default_action = values.default_action]
                m2m == UpdateDynamicPolicyM2M(row, values)
            IN /\ dynamic_policies' = [dynamic_policies EXCEPT ![dynamic_policy_id] = m2m.row]
               /\ response' = IF m2m.status = 0
                              THEN Resp("put_dynamic_policy", 200, dynamic_policy_id)
                              ELSE Resp("put_dynamic_policy", m2m.status, dynamic_policy_id)
    /\ UNCHANGED <<dynamic_policy_seq, targets, tests, test_seq,
                   netVars, svcVars, polVars, revVars, call, session, adaptor, depVars>>

(* run_tests: AclCheck's first exact match of an all-"any" query is the     *)
(* first enabled term (the default term of a dynamic policy, which comes     *)
(* last, is no term of the list); the matched term is the first term whose  *)
(* name starts the match's name.                                            *)
run_tests(expanded_terms, expected_action) ==
    LET Enabled(t) == terms[t].enabled
        enabled == SelectSeq(expanded_terms, Enabled)
        SameName(t) == terms[t].name = terms[enabled[1]].name
    IN IF enabled = << >> THEN NoId
       ELSE IF terms[enabled[1]].action # expected_action THEN NoId
       ELSE SelectSeq(expanded_terms, SameName)[1]

(* get_tests_run: 404, 500 (RecursionError, or ZeroDivisionError when no   *)
(* term is left) or 200 with the matched and the expanded terms counted.    *)
get_tests_run(kind, id) ==
    LET table == IF kind = "policy" THEN policies ELSE dynamic_policies
        resolved == TestDynamicPolicyTerms(table[id])
        expanded == IF kind = "policy" THEN PolicyExpandedTerms(id)
                    ELSE [ok |-> resolved.ok,
                          value |-> [i \in DOMAIN resolved.value |-> resolved.value[i].id]]
        matched_ids ==
            {run_tests(expanded.value, c.expected_action) :
                 c \in UNION {Range(tests[t].cases) : t \in table[id].tests \cap DOMAIN tests}}
                \ {NoId}
    IN IF id \notin DOMAIN table THEN [status |-> 404, matched |-> 0, total |-> 0]
       ELSE IF ~expanded.ok \/ expanded.value = << >>
       THEN [status |-> 500, matched |-> 0, total |-> 0]
       ELSE [status |-> 200, matched |-> Cardinality(matched_ids),
             total |-> Len(expanded.value)]

(* coverage = round(len(set(matched_ids)) / len(expanded_terms), 4) < 1.0 *)
CoverageBelowOne(kind, id) ==
    LET result == get_tests_run(kind, id)
    IN result.status = 200 /\ result.matched < result.total

(* Request bodies of POST /revisions: PolicyRevisionCreate or               *)
(* DynamicPolicyRevisionCreate.                                             *)
RevisionValues == [kind : {"policy", "dynamic_policy"}, id : 1..MaxPolicies]

(* The row revision_crud.create adds: the snapshots of the policy and of   *)
(* its expanded terms.                                                      *)
NewRevision(values, json_data, expanded_terms) ==
    [policy_id |-> IF values.kind = "policy" THEN values.id ELSE NoId,
     dynamic_policy_id |-> IF values.kind = "policy" THEN NoId ELSE values.id,
     json_data |-> json_data,
     expanded_terms |-> [i \in DOMAIN expanded_terms |-> terms[expanded_terms[i]]]]

(* generate_acl_from_policy: the text rendered for a target from the        *)
(* policy's name (the filter name), the target and the enabled terms.       *)
generate_acl_from_policy(policy, expanded_terms, target_id) ==
    LET IsEnabled(t) == terms[t].enabled
        rendered == SelectSeq(expanded_terms, IsEnabled)
    IN [filter_name |-> policy.name, target |-> targets[target_id].name,
        terms |-> [i \in DOMAIN rendered |-> terms[rendered[i]]]]

(* One RevisionConfig per target of the policy, in the targets' order. *)
NewConfigs(revision_id, policy, expanded_terms) ==
    LET target_list == Ascending(policy.targets)
    IN [i \in DOMAIN target_list |->
           [revision_id |-> revision_id, target_id |-> target_list[i],
            config |-> generate_acl_from_policy(policy, expanded_terms, target_list[i])]]

(* session.add of the rows and the commit: each row takes the next id. *)
AddConfigs(table, configs) ==
    [c \in DOMAIN table \cup {config_seq + i : i \in DOMAIN configs} |->
        IF c \in DOMAIN table THEN table[c] ELSE configs[c - config_seq]]

(* write_revision before it creates a row: the policy or dynamic policy is  *)
(* loaded and its terms are resolved.  status 0: the request goes on.       *)
RevisionRequest(values) ==
    LET table == IF values.kind = "policy" THEN policies ELSE dynamic_policies
        resolved == IF values.kind = "policy" THEN PolicyExpandedTerms(values.id)
                    ELSE DynamicPolicyTerms(table[values.id])
    IN IF values.id \notin DOMAIN table
       THEN [status |-> IF values.kind = "policy" THEN 404 ELSE 500]
       ELSE IF ~resolved.ok THEN [status |-> 500]
       ELSE IF values.kind = "dynamic_policy" /\ resolved.value = << >>
       THEN [status |-> 403]
       ELSE [status |-> 0, policy |-> table[values.id], expanded_terms |-> resolved.value]

(* POST /revisions served with no other request in between. *)
write_revision(values) ==
    /\ LET request == RevisionRequest(values)
       IN IF request.status # 0
          THEN /\ response' = Resp("write_revision", request.status, NoId)
               /\ UNCHANGED <<revVars, call, session, adaptor>>
          ELSE /\ revision_seq < MaxRevisions
               /\ LET id == revision_seq + 1
                      configs == NewConfigs(id, request.policy, request.expanded_terms)
                  IN /\ revision_seq' = id
                     /\ revisions' = Insert(revisions, id,
                                            NewRevision(values, request.policy,
                                                        request.expanded_terms))
                     /\ revision_configs' = AddConfigs(revision_configs, configs)
                     /\ config_seq' = config_seq + Len(configs)
                     /\ response' = Resp("write_revision", 201, id)
                     /\ UNCHANGED <<revise, call, session, adaptor>>
    /\ UNCHANGED <<netVars, svcVars, polVars, auxVars, depVars>>

(* POST /revisions up to revision_crud.create, which adds the Revision and  *)
(* commits; the texts are rendered from what the request has loaded.        *)
write_revision_create(values) ==
    /\ revise.pc = "idle"
    /\ LET request == RevisionRequest(values)
       IN IF request.status # 0
          THEN /\ response' = Resp("write_revision", request.status, NoId)
               /\ UNCHANGED <<revVars, call, session, adaptor>>
          ELSE /\ revision_seq < MaxRevisions
               /\ LET id == revision_seq + 1
                  IN /\ revision_seq' = id
                     /\ revisions' = Insert(revisions, id,
                                            NewRevision(values, request.policy,
                                                        request.expanded_terms))
                     /\ revise' = [pc |-> "configs", id |-> id,
                                   configs |-> NewConfigs(id, request.policy,
                                                          request.expanded_terms)]
                     /\ UNCHANGED <<revision_configs, config_seq, call, session, adaptor, response>>
    /\ UNCHANGED <<netVars, svcVars, polVars, auxVars, depVars>>

(* POST /revisions after revision_crud.create: the RevisionConfigs are      *)
(* appended and committed together.  A revision or a target deleted in      *)
(* between breaks a foreign key of the rows.                                *)
write_revision_configs ==
    /\ revise.pc = "configs"
    /\ IF \/ revise.id \notin DOMAIN revisions
          \/ \E i \in DOMAIN revise.configs : revise.configs[i].target_id \notin DOMAIN targets
       THEN /\ response' = Resp("write_revision", 500, revise.id)
            /\ UNCHANGED <<revision_configs, config_seq>>
       ELSE /\ revision_configs' = AddConfigs(revision_configs, revise.configs)
            /\ config_seq' = config_seq + Len(revise.configs)
            /\ response' = Resp("write_revision", 201, revise.id)
    /\ revise' = NoRevision
    /\ UNCHANGED <<call, session, adaptor>>
    /\ UNCHANGED <<revisions, revision_seq, netVars, svcVars, polVars, auxVars, depVars>>

(* revisions: CheckConstraint check_policy_or_dynamic_policy_only_one. *)
check_policy_or_dynamic_policy_only_one(row) ==
    /\ row.policy_id # NoId \/ row.dynamic_policy_id # NoId
    /\ ~(row.policy_id # NoId /\ row.dynamic_policy_id # NoId)

(* PUT /revisions/{id}: revision_crud.update writes the fields of the body, *)
(* policy_id or dynamic_policy_id (and the comment).                        *)
update_revision(id, values) ==
    /\ IF id \notin DOMAIN revisions
       THEN /\ response' = Resp("update_revision", 404, id)
            /\ UNCHANGED revisions
       ELSE LET row == IF values.kind = "policy"
                       THEN [revisions[id] EXCEPT !.policy_id = values.id]
                       ELSE [revisions[id] EXCEPT !.dynamic_policy_id = values.id]
            IN IF /\ check_policy_or_dynamic_policy_only_one(row)
                  /\ row.policy_id \in DOMAIN policies \cup {NoId}
                  /\ row.dynamic_policy_id \in DOMAIN dynamic_policies \cup {NoId}
               THEN /\ revisions' = [revisions EXCEPT ![id] = row]
                    /\ response' = Resp("update_revision", 200, id)
               ELSE /\ response' = Resp("update_revision", 500, id)
                    /\ UNCHANGED revisions
    /\ UNCHANGED <<revision_seq, revision_configs, config_seq, revise, call, session, adaptor,
                   netVars, svcVars, polVars, auxVars, depVars>>

(* DELETE /revisions/{id}: the revision goes with its configs. *)
erase_revision(id) ==
    /\ IF id \notin DOMAIN revisions
       THEN /\ response' = Resp("erase_revision", 404, id)
            /\ UNCHANGED <<revisions, revision_configs>>
       ELSE IF DeploymentsOf({id}) # {}
       THEN /\ response' = Resp("erase_revision", 500, id)
            /\ UNCHANGED <<revisions, revision_configs>>
       ELSE /\ revisions' = Remove(revisions, {id})
            /\ revision_configs' = Remove(revision_configs, ConfigsOf({id}))
            /\ response' = Resp("erase_revision", 200, id)
    /\ UNCHANGED <<revision_seq, config_seq, revise, call, session, adaptor,
                   netVars, svcVars, polVars, auxVars, depVars>>

(* DELETE /targets/{id}: Target.revisions (the RevisionConfigs rendered for *)
(* the target) and Target.deployers are cascade "all, delete", the rows of  *)
(* the association tables go with the target; a deployment of one of the    *)
(* deployers keeps its NOT NULL deployer_id and fails the delete.           *)
erase_target(id) ==
    /\ LET target_deployers == {d \in DOMAIN deployers : deployers[d].target_id = id}
           Without(table) ==
               [r \in DOMAIN table |-> [table[r] EXCEPT !.targets = @ \ {id}]]
       IN IF id \notin DOMAIN targets
          THEN /\ response' = Resp("erase_target", 404, id)
               /\ UNCHANGED <<targets, revision_configs, deployers, policies,
                              dynamic_policies>>
          ELSE IF \E d \in DOMAIN deployments : deployments[d].deployer_id \in target_deployers
          THEN /\ response' = Resp("erase_target", 500, id)
               /\ UNCHANGED <<targets, revision_configs, deployers, policies,
                              dynamic_policies>>
          ELSE /\ targets' = Remove(targets, {id})
               /\ revision_configs' =
                      Remove(revision_configs,
                             {c \in DOMAIN revision_configs :
                                 revision_configs[c].target_id = id})
               /\ deployers' = Remove(deployers, target_deployers)
               /\ policies' = Without(policies)
               /\ dynamic_policies' = Without(dynamic_policies)
               /\ response' = Resp("erase_target", 200, id)
    /\ UNCHANGED <<policy_seq, terms, term_seq, tests, test_seq, dynamic_policy_seq,
                   revisions, revision_seq, config_seq, revise, call, session, adaptor,
                   deployments, deployment_seq, jobs, workers, deploy, netVars, svcVars>>

----------------------------------------------------------------------------
(* The network store: every request of api/v1/networks.py against an empty  *)
(* database, with write_network interleaved between clients.                *)

Init ==
    /\ networks = << >>
    /\ network_seq = 0
    /\ addresses = << >>
    /\ address_seq = 0
    /\ pending = [c \in Clients |-> NoName]
    /\ services = << >> /\ service_seq = 0
    /\ entries = << >> /\ entry_seq = 0
    /\ policies = << >> /\ policy_seq = 0
    /\ terms = << >> /\ term_seq = 0
    /\ targets = << >> /\ tests = << >> /\ test_seq = 0
    /\ dynamic_policies = << >> /\ dynamic_policy_seq = 0
    /\ revisions = << >> /\ revision_seq = 0
    /\ revision_configs = << >> /\ config_seq = 0
    /\ revise = NoRevision
    /\ call = NoCall /\ session = NoSession /\ adaptor = NoAdaptor
    /\ deployers = << >>
    /\ deployments = << >> /\ deployment_seq = 0
    /\ jobs = << >>
    /\ workers = [w \in Workers |-> IdleWorker]
    /\ deploy = NoRequest
    /\ response = Resp("none", 0, NoId)

Next ==
    \/ \E c \in Clients, name \in NetworkNames : write_network_check(c, name)
    \/ \E c \in Clients : write_network_create(c)
    \/ \E id \in 1..MaxNetworks, name \in NetworkNames : put_network(id, name)
    \/ \E id \in 1..MaxNetworks : erase_network(id)
    \/ \E n \in 1..MaxNetworks, v \in NetworkAddressCreateValues : write_network_address(n, v)
    \/ \E n \in 1..MaxNetworks, a \in 1..MaxAddresses, v \in NetworkAddressUpdateValues :
           put_network_address(n, a, v)
    \/ \E n \in 1..MaxNetworks, a \in 1..MaxAddresses : erase_network_address(n, a)

Spec == Init /\ [][Next]_vars

----------------------------------------------------------------------------
(* The reference store: two objects of one kind exist (two networks, two    *)
(* services or two policies); requests add, change and delete addresses,    *)
(* entries and terms, and delete the objects themselves.                    *)

RefTermValues ==
    TacticalTermValues(TermNames, {TRUE}, {"accept"}, {"False"}, {}, {0})
        \cup NestedTermValues(TermNames, {TRUE}, 1..MaxPolicies, {0})

InitRefs ==
    /\ \E kind \in {"network", "service", "policy"} :
           /\ networks = IF kind = "network"
                         THEN <<[name |-> "net_a"], [name |-> "net_b"]>> ELSE << >>
           /\ network_seq = IF kind = "network" THEN 2 ELSE 0
           /\ services = IF kind = "service"
                         THEN <<[name |-> "svc_a"], [name |-> "svc_b"]>> ELSE << >>
           /\ service_seq = IF kind = "service" THEN 2 ELSE 0
           /\ policies = IF kind = "policy"
                         THEN <<[name |-> "pol_a", targets |-> {}, tests |-> {}],
                                [name |-> "pol_b", targets |-> {}, tests |-> {}]>>
                         ELSE << >>
           /\ policy_seq = IF kind = "policy" THEN 2 ELSE 0
    /\ addresses = << >> /\ address_seq = 0
    /\ pending = [c \in Clients |-> NoName]
    /\ entries = << >> /\ entry_seq = 0
    /\ terms = << >> /\ term_seq = 0
    /\ targets = << >> /\ tests = << >> /\ test_seq = 0
    /\ dynamic_policies = << >> /\ dynamic_policy_seq = 0
    /\ revisions = << >> /\ revision_seq = 0
    /\ revision_configs = << >> /\ config_seq = 0
    /\ revise = NoRevision
    /\ call = NoCall /\ session = NoSession /\ adaptor = NoAdaptor
    /\ deployers = << >>
    /\ deployments = << >> /\ deployment_seq = 0
    /\ jobs = << >>
    /\ workers = [w \in Workers |-> IdleWorker]
    /\ deploy = NoRequest
    /\ response = Resp("none", 0, NoId)

NextRefs ==
    \/ \E n \in 1..MaxNetworks, v \in NetworkAddressCreateValues : write_network_address(n, v)
    \/ \E n \in 1..MaxNetworks, a \in 1..MaxAddresses, v \in NetworkAddressUpdateValues :
           put_network_address(n, a, v)
    \/ \E n \in 1..MaxNetworks, a \in 1..MaxAddresses : erase_network_address(n, a)
    \/ \E id \in 1..MaxNetworks : erase_network(id)
    \/ \E sv \in 1..MaxServices, v \in ServiceEntryCreateValues : write_entries(sv, v)
    \/ \E sv \in 1..MaxServices, e \in 1..MaxEntries, v \in ServiceEntryUpdateValues :
           put_service_entries(sv, e, v)
    \/ \E sv \in 1..MaxServices, e \in 1..MaxEntries : erase_service_entries(sv, e)
    \/ \E id \in 1..MaxServices : erase_service(id)
    \/ \E p \in 1..MaxPolicies, v \in RefTermValues : write_policy_term(p, v)
    \/ \E p \in 1..MaxPolicies, t \in 1..MaxTerms, v \in RefTermValues : put_policy_terms(p, t, v)
    \/ \E p \in 1..MaxPolicies, t \in 1..MaxTerms : erase_policy_term(p, t)
    \/ \E id \in 1..MaxPolicies : erase_policy(id)

SpecRefs == InitRefs /\ [][NextRefs]_vars

----------------------------------------------------------------------------
(* The deployment store: a policy with two revisions (one rendered for       *)
(* targets 1 and 2, one for target 2 only) and any set of deployers out of   *)
(* a catalogue; deploy requests run one at a time while the worker takes     *)
(* jobs from the queue.                                                      *)

DeployerCatalogue ==
    <<[name |-> "dep_a", mode |-> "git", target_id |-> 1],
      [name |-> "dep_b", mode |-> "netmiko", target_id |-> 1],
      [name |-> "dep_c", mode |-> "proxmox_nft", target_id |-> 2]>>

(* The (config, deployer) pairs of a revision with equal target_id. *)
DeployPairs(revision_id) ==
    {<<c, d>> \in (DOMAIN revision_configs) \X (DOMAIN deployers) :
        /\ revision_configs[c].revision_id = revision_id
        /\ revision_configs[c].target_id = deployers[d].target_id}

InitDeploy ==
    /\ networks = << >> /\ network_seq = 0
    /\ addresses = << >> /\ address_seq = 0
    /\ pending = [c \in Clients |-> NoName]
    /\ services = << >> /\ service_seq = 0
    /\ entries = << >> /\ entry_seq = 0
    /\ policies = <<[name |-> "pol_a", targets |-> {1, 2}, tests |-> {}]>>
    /\ policy_seq = 1
    /\ terms = << >> /\ term_seq = 0
    /\ targets = <<[name |-> "tgt_a"], [name |-> "tgt_b"]>>
    /\ tests = << >> /\ test_seq = 0
    /\ dynamic_policies = << >> /\ dynamic_policy_seq = 0
    /\ revisions = <<[policy_id |-> 1, dynamic_policy_id |-> NoId,
                      json_data |-> [name |-> "pol_a", targets |-> {1, 2}, tests |-> {}],
                      expanded_terms |-> << >>],
                     [policy_id |-> 1, dynamic_policy_id |-> NoId,
                      json_data |-> [name |-> "pol_a", targets |-> {2}, tests |-> {}],
                      expanded_terms |-> << >>]>>
    /\ revision_seq = 2
    /\ revision_configs = <<[revision_id |-> 1, target_id |-> 1],
                            [revision_id |-> 1, target_id |-> 2],
                            [revision_id |-> 2, target_id |-> 2]>>
    /\ config_seq = 3
    /\ revise = NoRevision
    /\ call = NoCall /\ session = NoSession /\ adaptor = NoAdaptor
    /\ \E ids \in SUBSET DOMAIN DeployerCatalogue :
           deployers = [d \in ids |-> DeployerCatalogue[d]]
    /\ deployments = << >> /\ deployment_seq = 0
    /\ jobs = << >>
    /\ workers = [w \in Workers |-> IdleWorker]
    /\ deploy = NoRequest
    /\ response = Resp("none", 0, NoId)

NextDeploy ==
    \/ \E id \in DOMAIN revisions \cup {revision_seq + 1} :
           /\ deployment_seq + Cardinality(DeployPairs(id)) <= MaxDeployments
           /\ deploy_revision_begin(id)
    \/ deploy_revision_deployers
    \/ deploy_revision_commit
    \/ deploy_revision_enqueue
    \/ deploy_revision_end
    \/ \E w \in Workers, j \in 1..MaxDeployments : job_startup(w, j)
    \/ \E w \in Workers, outcome \in JobOutcomes : run_job(w, outcome)
    \/ \E w \in Workers : job_shutdown(w)

SpecDeploy == InitDeploy /\ [][NextDeploy]_vars

----------------------------------------------------------------------------
(* The queue with several worker processes: one revision rendered for one   *)
(* target that two deployers serve, so that a deploy request enqueues two   *)
(* jobs; each worker process runs WorkerSettings (max_jobs = 1) and takes   *)
(* jobs from the one queue.                                                  *)

InitQueue ==
    /\ networks = << >> /\ network_seq = 0
    /\ addresses = << >> /\ address_seq = 0
    /\ pending = [c \in Clients |-> NoName]
    /\ services = << >> /\ service_seq = 0
    /\ entries = << >> /\ entry_seq = 0
    /\ policies = <<[name |-> "pol_a", targets |-> {1}, tests |-> {}]>>
    /\ policy_seq = 1
    /\ terms = << >> /\ term_seq = 0
    /\ targets = <<[name |-> "tgt_a"]>>
    /\ tests = << >> /\ test_seq = 0
    /\ dynamic_policies = << >> /\ dynamic_policy_seq = 0
    /\ revisions = <<[policy_id |-> 1, dynamic_policy_id |-> NoId,
                      json_data |-> [name |-> "pol_a", targets |-> {1}, tests |-> {}],
                      expanded_terms |-> << >>]>>
    /\ revision_seq = 1
    /\ revision_configs = <<[revision_id |-> 1, target_id |-> 1]>>
    /\ config_seq = 1
    /\ revise = NoRevision
    /\ call = NoCall /\ session = NoSession /\ adaptor = NoAdaptor
    /\ deployers = [d \in {1, 2} |-> DeployerCatalogue[d]]
    /\ deployments = << >> /\ deployment_seq = 0
    /\ jobs = << >>
    /\ workers = [w \in 1..MaxQueueWorkers |-> IdleWorker]
    /\ deploy = NoRequest
    /\ response = Resp("none", 0, NoId)

NextQueue ==
    \/ \E id \in DOMAIN revisions :
           /\ deployment_seq + Cardinality(DeployPairs(id)) <= MaxDeployments
           /\ deploy_revision_begin(id)
    \/ deploy_revision_deployers
    \/ deploy_revision_commit
    \/ deploy_revision_enqueue
    \/ deploy_revision_end
    \/ \E w \in DOMAIN workers, j \in 1..MaxDeployments : job_startup(w, j)
    \/ \E w \in DOMAIN workers, outcome \in JobOutcomes : run_job(w, outcome)
    \/ \E w \in DOMAIN workers : job_shutdown(w)

SpecQueue == InitQueue /\ [][NextQueue]_vars

----------------------------------------------------------------------------
(* The policy store: network net_a holds an address and net_b nests net_a;  *)
(* one target exists.  Requests create and change policies, terms, tests    *)
(* and dynamic policies, rename the networks and create revisions.          *)

PolicyStoreTermValues ==
    {v \in TacticalTermValues({"t1"}, {TRUE}, {"accept"}, {"False"}, {2}, {0}) :
        v.source_networks = {2} /\ v.destination_networks = {}}
        \cup NestedTermValues({"t2"}, {TRUE}, 1..MaxPolicies, {0})

PolicyStorePolicyValues ==
    {v \in PolicyValues(PolicyNames, {1}, 1..MaxTests) : v.targets = {1}}

PolicyStoreDynamicPolicyValues ==
    DynamicPolicyValues({"dyn_a"}, {Null}, {}, {2}, {})

InitPolicy ==
    /\ networks = <<[name |-> "net_a"], [name |-> "net_b"]>> /\ network_seq = 2
    /\ addresses = <<[network_id |-> 1, address |-> <<0, 1>>, nested_network_id |-> NoId],
                     [network_id |-> 2, address |-> NoAddress, nested_network_id |-> 1]>>
    /\ address_seq = 2
    /\ pending = [c \in Clients |-> NoName]
    /\ services = << >> /\ service_seq = 0
    /\ entries = << >> /\ entry_seq = 0
    /\ policies = << >> /\ policy_seq = 0
    /\ terms = << >> /\ term_seq = 0
    /\ targets = <<[name |-> "tgt_a"]>>
    /\ tests = << >> /\ test_seq = 0
    /\ dynamic_policies = << >> /\ dynamic_policy_seq = 0
    /\ revisions = << >> /\ revision_seq = 0
    /\ revision_configs = << >> /\ config_seq = 0
    /\ revise = NoRevision
    /\ call = NoCall /\ session = NoSession /\ adaptor = NoAdaptor
    /\ deployers = << >>
    /\ deployments = << >> /\ deployment_seq = 0
    /\ jobs = << >>
    /\ workers = [w \in Workers |-> IdleWorker]
    /\ deploy = NoRequest
    /\ response = Resp("none", 0, NoId)

(* The rows the requests have asked for so far. *)
StoreRows == policy_seq + term_seq + test_seq + dynamic_policy_seq

NextPolicy ==
    \/ \E id \in 1..MaxNetworks, name \in NetworkNames : put_network(id, name)
    \/ \E v \in PolicyStorePolicyValues :
           StoreRows < MaxStoreRows /\ v.tests = {} /\ write_policy(v)
    \/ \E id \in 1..MaxPolicies, v \in PolicyStorePolicyValues : put_policy(id, v)
    \/ \E p \in 1..MaxPolicies, v \in PolicyStoreTermValues :
           StoreRows < MaxStoreRows /\ write_policy_term(p, v)
    \/ \E v \in TestValues({"test_a"}, {1}, {}) : StoreRows < MaxStoreRows /\ write_test(v)
    \/ \E t \in 1..MaxTests, v \in TestValues({"test_a"}, {}, {1}) :
           v.cases = << >> /\ put_test(t, v)
    \/ \E v \in PolicyStoreDynamicPolicyValues :
           StoreRows < MaxStoreRows /\ write_dynamic_policy(v)
    \/ \E d \in 1..MaxDynamicPolicies, v \in PolicyStoreDynamicPolicyValues :
           put_dynamic_policy(d, v)
    \/ \E v \in RevisionValues : write_revision(v)

SpecPolicy == InitPolicy /\ [][NextPolicy]_vars

----------------------------------------------------------------------------
(* The revision store: policy pol_a with one term is associated with two    *)
(* targets.  Requests create revisions (other requests run between the two  *)
(* commits of POST /revisions), change and delete them, and change or       *)
(* delete what a revision was made from.                                    *)

RevisionStorePolicyValues == PolicyValues(PolicyNames, 1..MaxTargets, {})

RevisionStoreTermValues ==
    {v \in TacticalTermValues({"t1"}, BOOLEAN, {"accept", "deny"}, {"False"}, {}, {0}) :
        v.enabled \/ v.action = "accept"}

InitRevisions ==
    /\ networks = <<[name |-> "net_a"]>> /\ network_seq = 1
    /\ addresses = <<[network_id |-> 1, address |-> <<0, 1>>, nested_network_id |-> NoId]>>
    /\ address_seq = 1
    /\ pending = [c \in Clients |-> NoName]
    /\ services = << >> /\ service_seq = 0
    /\ entries = << >> /\ entry_seq = 0
    /\ policies = <<[name |-> "pol_a", targets |-> 1..MaxTargets, tests |-> {}]>>
    /\ policy_seq = 1
    /\ terms = <<[policy_id |-> 1, name |-> "t1",
                  lex_order |-> get_rank_between(RankFirst, RankLast),
                  enabled |-> TRUE, action |-> "accept", logging |-> "False",
                  negate_source_networks |-> "False", negate_destination_networks |-> "False",
                  nested_policy_id |-> NoId, source_networks |-> {},
                  destination_networks |-> {}]>>
    /\ term_seq = 1
    /\ targets = [t \in 1..MaxTargets |-> [name |-> IF t = 1 THEN "tgt_a" ELSE "tgt_b"]]
    /\ tests = << >> /\ test_seq = 0
    /\ dynamic_policies = << >> /\ dynamic_policy_seq = 0
    /\ revisions = << >> /\ revision_seq = 0
    /\ revision_configs = << >> /\ config_seq = 0
    /\ revise = NoRevision
    /\ call = NoCall /\ session = NoSession /\ adaptor = NoAdaptor
    /\ deployers = << >>
    /\ deployments = << >> /\ deployment_seq = 0
    /\ jobs = << >>
    /\ workers = [w \in Workers |-> IdleWorker]
    /\ deploy = NoRequest
    /\ response = Resp("none", 0, NoId)

NextRevisions ==
    \/ \E v \in RevisionValues : write_revision_create(v)
    \/ write_revision_configs
    \/ \E id \in 1..MaxRevisions, v \in RevisionValues : update_revision(id, v)
    \/ \E id \in 1..MaxRevisions : erase_revision(id)
    \/ \E id \in 1..MaxTargets : erase_target(id)
    \/ \E id \in 1..MaxPolicies, v \in RevisionStorePolicyValues : put_policy(id, v)
    \/ \E t \in 1..MaxTerms, v \in RevisionStoreTermValues : put_policy_terms(1, t, v)
    \/ \E id \in 1..MaxPolicies : erase_policy(id)
    \/ \E id \in 1..MaxNetworks, name \in NetworkNames : put_network(id, name)

SpecRevisions == InitRevisions /\ [][NextRevisions]_vars

----------------------------------------------------------------------------
(* The expansion of nested policies: the policies exist, and the terms are  *)
(* any rows the term endpoints can leave behind, tactical (enabled or not)  *)
(* or nesting any policy, also their own or in a circle, ranked against the *)
(* order of their ids.  POST /revisions expands a policy.                   *)

ExpandPolicies == 1..MaxExpandPolicies

(* What a term is: a policy it nests, NoId for a tactical term, or          *)
(* Disabled for a tactical term that is switched off.                       *)
Disabled == 0 - 1

ExpandShapes == {Disabled, NoId} \cup ExpandPolicies

ExpandTermRow(i, policy_id, shape) ==
    LET lex_order == <<ALPHABET_SIZE - i>>
    IN IF shape \in ExpandPolicies
       THEN [policy_id |-> policy_id, name |-> ToString(i), lex_order |-> lex_order,
             enabled |-> TRUE, action |-> Null, logging |-> Null,
             negate_source_networks |-> Null, negate_destination_networks |-> Null,
             nested_policy_id |-> shape, source_networks |-> {},
             destination_networks |-> {}]
       ELSE [policy_id |-> policy_id, name |-> ToString(i), lex_order |-> lex_order,
             enabled |-> (shape # Disabled), action |-> "accept", logging |-> "False",
             negate_source_networks |-> "False", negate_destination_networks |-> "False",
             nested_policy_id |-> NoId, source_networks |-> {},
             destination_networks |-> {}]

InitExpand ==
    /\ networks = << >> /\ network_seq = 0
    /\ addresses = << >> /\ address_seq = 0
    /\ pending = [c \in Clients |-> NoName]
    /\ services = << >> /\ service_seq = 0
    /\ entries = << >> /\ entry_seq = 0
    /\ policies = [p \in ExpandPolicies |->
                      [name |-> ToString(p), targets |-> {}, tests |-> {}]]
    /\ policy_seq = MaxExpandPolicies
    /\ \E policy_of \in [1..MaxExpandTerms -> ExpandPolicies],
          shape_of \in [1..MaxExpandTerms -> ExpandShapes] :
           terms = [i \in 1..MaxExpandTerms |->
                       ExpandTermRow(i, policy_of[i], shape_of[i])]
    /\ term_seq = MaxExpandTerms
    /\ targets = << >>
    /\ tests = << >> /\ test_seq = 0
    /\ dynamic_policies = << >> /\ dynamic_policy_seq = 0
    /\ revisions = << >> /\ revision_seq = 0
    /\ revision_configs = << >> /\ config_seq = 0
    /\ revise = NoRevision
    /\ call = NoCall /\ session = NoSession /\ adaptor = NoAdaptor
    /\ deployers = << >>
    /\ deployments = << >> /\ deployment_seq = 0
    /\ jobs = << >>
    /\ workers = [w \in Workers |-> IdleWorker]
    /\ deploy = NoRequest
    /\ response = Resp("none", 0, NoId)

(* One request is followed on each store. *)
NextExpand ==
    \E id \in ExpandPolicies :
        response.op = "none" /\ write_revision([kind |-> "policy", id |-> id])

SpecExpand == InitExpand /\ [][NextExpand]_vars

----------------------------------------------------------------------------
(* The negation of networks: exclude_networks is called with any list of    *)
(* IPv4 networks no two of which overlap.                                   *)

DisjointLists ==
    {list \in UNION {[1..k -> Cidrs] : k \in 0..MaxExcluded} :
        \A i, j \in DOMAIN list : i # j => ~Overlaps(list[i], list[j])}

InitNegation ==
    /\ networks = << >> /\ network_seq = 0
    /\ addresses = << >> /\ address_seq = 0
    /\ pending = [c \in Clients |-> NoName]
    /\ services = << >> /\ service_seq = 0
    /\ entries = << >> /\ entry_seq = 0
    /\ policies = << >> /\ policy_seq = 0
    /\ terms = << >> /\ term_seq = 0
    /\ targets = << >>
    /\ tests = << >> /\ test_seq = 0
    /\ dynamic_policies = << >> /\ dynamic_policy_seq = 0
    /\ revisions = << >> /\ revision_seq = 0
    /\ revision_configs = << >> /\ config_seq = 0
    /\ revise = NoRevision
    /\ \E list \in DisjointLists :
           call = [pc |-> "called", function |-> "exclude_networks",
                   arguments |-> <<list>>, result |-> << >>]
    /\ session = NoSession /\ adaptor = NoAdaptor
    /\ deployers = << >>
    /\ deployments = << >> /\ deployment_seq = 0
    /\ jobs = << >>
    /\ workers = [w \in Workers |-> IdleWorker]
    /\ deploy = NoRequest
    /\ response = Resp("none", 0, NoId)

NextNegation == call_exclude_networks

SpecNegation == InitNegation /\ [][NextNegation]_vars

----------------------------------------------------------------------------
(* Negated terms: policy pol_a and network net_a exist; terms are created   *)
(* and updated with either negate flag and any network ids, of networks     *)
(* that exist or not, and deleted.                                          *)

NegatedTermValues ==
    TacticalTermValues(TermNames, {TRUE}, {"accept"}, {"False", "True"}, 1..MaxNetworks, {0})

InitTerms ==
    /\ networks = <<[name |-> "net_a"]>> /\ network_seq = 1
    /\ addresses = <<[network_id |-> 1, address |-> <<0, 1>>, nested_network_id |-> NoId]>>
    /\ address_seq = 1
    /\ pending = [c \in Clients |-> NoName]
    /\ services = << >> /\ service_seq = 0
    /\ entries = << >> /\ entry_seq = 0
    /\ policies = <<[name |-> "pol_a", targets |-> {}, tests |-> {}]>>
    /\ policy_seq = 1
    /\ terms = << >> /\ term_seq = 0
    /\ targets = << >>
    /\ tests = << >> /\ test_seq = 0
    /\ dynamic_policies = << >> /\ dynamic_policy_seq = 0
    /\ revisions = << >> /\ revision_seq = 0
    /\ revision_configs = << >> /\ config_seq = 0
    /\ revise = NoRevision
    /\ call = NoCall /\ session = NoSession /\ adaptor = NoAdaptor
    /\ deployers = << >>
    /\ deployments = << >> /\ deployment_seq = 0
    /\ jobs = << >>
    /\ workers = [w \in Workers |-> IdleWorker]
    /\ deploy = NoRequest
    /\ response = Resp("none", 0, NoId)

NextTerms ==
    \/ \E v \in NegatedTermValues : write_policy_term(1, v)
    \/ \E t \in 1..MaxTerms, v \in NegatedTermValues : put_policy_terms(1, t, v)
    \/ \E t \in 1..MaxTerms : erase_policy_term(1, t)

SpecTerms == InitTerms /\ [][NextTerms]_vars

----------------------------------------------------------------------------
(* The containment search: the networks hold any address rows the address   *)
(* endpoints accept, leaves and nestings, also nestings in a circle, and    *)
(* fetch_networks is called with a filter.                                  *)

FilterLeaves == {<<0, AddressBits>>, <<2 ^ (AddressBits - 1), AddressBits>>}

FilterInputs == {{<<0, 1>>}, {<<0, 1>>, <<2 ^ (AddressBits - 1), AddressBits>>}, {IPv4Space}}

FilterAddressRow(network_id, content) ==
    IF content \in FilterLeaves
    THEN [network_id |-> network_id, address |-> content, nested_network_id |-> NoId]
    ELSE [network_id |-> network_id, address |-> NoAddress, nested_network_id |-> content[1]]

InitFilter ==
    /\ networks = [n \in 1..MaxFilterNetworks |-> [name |-> ToString(n)]]
    /\ network_seq = MaxFilterNetworks
    /\ \E network_of \in [1..MaxFilterAddresses -> 1..MaxFilterNetworks],
          content_of \in [1..MaxFilterAddresses ->
                             FilterLeaves \cup {<<n>> : n \in 1..MaxFilterNetworks}] :
           addresses = [a \in 1..MaxFilterAddresses |->
                           FilterAddressRow(network_of[a], content_of[a])]
    /\ AddressConstraints(addresses)
    /\ address_seq = MaxFilterAddresses
    /\ pending = [c \in Clients |-> NoName]
    /\ services = << >> /\ service_seq = 0
    /\ entries = << >> /\ entry_seq = 0
    /\ policies = << >> /\ policy_seq = 0
    /\ terms = << >> /\ term_seq = 0
    /\ targets = << >>
    /\ tests = << >> /\ test_seq = 0
    /\ dynamic_policies = << >> /\ dynamic_policy_seq = 0
    /\ revisions = << >> /\ revision_seq = 0
    /\ revision_configs = << >> /\ config_seq = 0
    /\ revise = NoRevision
    /\ \E filter_networks \in FilterInputs :
           call = [pc |-> "called", function |-> "fetch_networks",
                   arguments |-> <<filter_networks>>, result |-> << >>]
    /\ session = NoSession /\ adaptor = NoAdaptor
    /\ deployers = << >>
    /\ deployments = << >> /\ deployment_seq = 0
    /\ jobs = << >>
    /\ workers = [w \in Workers |-> IdleWorker]
    /\ deploy = NoRequest
    /\ response = Resp("none", 0, NoId)

NextFilter == call_fetch_networks

SpecFilter == InitFilter /\ [][NextFilter]_vars

----------------------------------------------------------------------------
(* The resolver of dynamic policies: two networks of leaf addresses, terms  *)
(* over them, negated or not, and a call of the resolver with a filter.     *)

ResolverTermRow(i, source_networks, destination_networks, negate_source) ==
    [policy_id |-> 1, name |-> ToString(i), lex_order |-> <<i>>,
     enabled |-> TRUE, action |-> "accept", logging |-> "False",
     negate_source_networks |-> IF negate_source THEN "True" ELSE "False",
     negate_destination_networks |-> "False",
     nested_policy_id |-> NoId, source_networks |-> source_networks,
     destination_networks |-> destination_networks]

ResolverFilters == {{}, {<<0, 1>>}, {<<2 ^ (AddressBits - 1), AddressBits>>}, {IPv4Space}}

InitResolver ==
    /\ networks = [n \in (1..MaxNetworks) |-> [name |-> ToString(n)]]
    /\ network_seq = MaxNetworks
    /\ \E network_of \in [1..MaxAddresses -> (1..MaxNetworks)],
          address_of \in [1..MaxAddresses -> FilterLeaves] :
           addresses = [a \in 1..MaxAddresses |->
                           FilterAddressRow(network_of[a], address_of[a])]
    /\ address_seq = MaxAddresses
    /\ pending = [c \in Clients |-> NoName]
    /\ services = << >> /\ service_seq = 0
    /\ entries = << >> /\ entry_seq = 0
    /\ policies = <<[name |-> "pol_a", targets |-> {}, tests |-> {}]>>
    /\ policy_seq = 1
    /\ \E source_of \in [1..MaxResolverTerms -> SUBSET (1..MaxNetworks)],
          destination_of \in [1..MaxResolverTerms -> SUBSET (1..MaxNetworks)],
          negate_of \in [1..MaxResolverTerms -> BOOLEAN] :
           /\ \A i \in 1..MaxResolverTerms : negate_of[i] => source_of[i] # {}
           /\ terms = [i \in 1..MaxResolverTerms |->
                          ResolverTermRow(i, source_of[i], destination_of[i], negate_of[i])]
    /\ term_seq = MaxResolverTerms
    /\ targets = << >>
    /\ tests = << >> /\ test_seq = 0
    /\ dynamic_policies = << >> /\ dynamic_policy_seq = 0
    /\ revisions = << >> /\ revision_seq = 0
    /\ revision_configs = << >> /\ config_seq = 0
    /\ revise = NoRevision
    /\ \E source_addresses \in ResolverFilters, destination_addresses \in ResolverFilters :
           call = [pc |-> "called", function |-> "fetch_terms",
                   arguments |-> <<source_addresses, destination_addresses>>,
                   result |-> << >>]
    /\ session = NoSession /\ adaptor = NoAdaptor
    /\ deployers = << >>
    /\ deployments = << >> /\ deployment_seq = 0
    /\ jobs = << >>
    /\ workers = [w \in Workers |-> IdleWorker]
    /\ deploy = NoRequest
    /\ response = Resp("none", 0, NoId)

NextResolver == call_resolver

SpecResolver == InitResolver /\ [][NextResolver]_vars

----------------------------------------------------------------------------
(* The positions of terms: the terms of policy pol_a are created and moved  *)
(* with a position in the body.                                             *)

PositionTermValues ==
    TacticalTermValues(TermNames, {TRUE}, {"accept"}, {"False"}, {}, 1..MaxTerms)

(* The letters of a rank up to the last one that is not the last letter of  *)
(* the alphabet: every move between two ranks makes the rank about one      *)
(* letter deeper.                                                           *)
RankDepth(rank) ==
    Cardinality({i \in DOMAIN rank : \E j \in DOMAIN rank : j >= i /\ rank[j] # ALPHABET_SIZE - 1})

(* Requests are followed while the ranks of the terms are no deeper than    *)
(* MaxRankDepth.                                                            *)
RanksWithinDepth ==
    \A t \in DOMAIN terms : RankDepth(terms[t].lex_order) <= MaxRankDepth

NextPosition ==
    \/ \E v \in PositionTermValues : RanksWithinDepth /\ write_policy_term(1, v)
    \/ \E t \in 1..MaxTerms, v \in PositionTermValues :
           RanksWithinDepth /\ put_policy_terms(1, t, v)

SpecPosition == InitTerms /\ [][NextPosition]_vars

----------------------------------------------------------------------------
(* Properties. *)

tables == <<netVars, svcVars, polVars, auxVars, revVars, depVars>>

(* The step answers a request `op` for the object `id`. *)
Answers(op, id) == response'.op = op /\ response'.id = id

(* The nested-reference graphs: an edge leads from the referrer to the      *)
(* object it nests.                                                         *)
NetworkEdges ==
    {<<addresses[a].network_id, addresses[a].nested_network_id>> :
        a \in {x \in DOMAIN addresses : addresses[x].nested_network_id # NoId}}

ServiceEdges ==
    {<<entries[e].service_id, entries[e].nested_service_id>> :
        e \in {x \in DOMAIN entries : entries[x].nested_service_id # NoId}}

PolicyEdges ==
    {<<terms[t].policy_id, terms[t].nested_policy_id>> :
        t \in {x \in DOMAIN terms : terms[x].nested_policy_id # NoId}}

Successors(S, edges) == {e[2] : e \in {f \in edges : f[1] \in S}}

RECURSIVE Closure(_, _)
Closure(S, edges) ==
    LET T == S \cup Successors(S, edges) IN IF T = S THEN S ELSE Closure(T, edges)

Acyclic(edges) == \A e \in edges : e[1] \notin Closure({e[2]}, edges)

(* The revisions a step adds. *)
NewRevisions == DOMAIN revisions' \ DOMAIN revisions

(* C1: no step adds a Revision row for a policy (or dynamic policy) whose   *)
(* test coverage, computed on the state the request finds, is below 1.0;    *)
(* RevisionConfig rows come only with a Revision, and POST /revisions       *)
(* answers 201 only with one.                                               *)
C1_CoverageGate ==
    [][/\ \A r \in NewRevisions :
              IF revisions'[r].policy_id # NoId
              THEN ~CoverageBelowOne("policy", revisions'[r].policy_id)
              ELSE ~CoverageBelowOne("dynamic_policy", revisions'[r].dynamic_policy_id)
       /\ DOMAIN revision_configs' # DOMAIN revision_configs => NewRevisions # {}
       /\ (response'.op = "write_revision" /\ response'.status = 201) => NewRevisions # {}
      ]_vars

(* The edited flag a row carries; a row without the column carries none. *)
Edited(row) == "edited" \in DOMAIN row /\ row.edited

(* The networks that nest network `id`, over any number of levels, and id. *)
NestingNetworks(id) == Closure({id}, {<<e[2], e[1]>> : e \in NetworkEdges})

PolicyReferences(policy_id, network_ids) ==
    \E t \in TermsOf(policy_id) :
        (terms[t].source_networks \cup terms[t].destination_networks) \cap network_ids # {}

DynamicPolicyReferences(dynamic_policy_id, network_ids) ==
    (dynamic_policies[dynamic_policy_id].source_filters
        \cup dynamic_policies[dynamic_policy_id].destination_filters) \cap network_ids # {}

(* C2: after a successful change of network N every policy and dynamic      *)
(* policy that references N, directly or through nesting networks, has      *)
(* edited = true, and the flag of every other one is as it was.             *)
C2_EditedPropagation ==
    [][(response'.op = "put_network" /\ response'.status = 200) =>
           LET N == NestingNetworks(response'.id)
           IN /\ \A p \in DOMAIN policies :
                     IF PolicyReferences(p, N) THEN Edited(policies'[p])
                     ELSE Edited(policies'[p]) = Edited(policies[p])
              /\ \A d \in DOMAIN dynamic_policies :
                     IF DynamicPolicyReferences(d, N) THEN Edited(dynamic_policies'[d])
                     ELSE Edited(dynamic_policies'[d]) = Edited(dynamic_policies[d])
      ]_vars

(* The step is a successful POST /revisions for the given policy. *)
RevisionCreated(policy_id, dynamic_policy_id) ==
    /\ response'.op = "write_revision" /\ response'.status = 201
    /\ \E r \in NewRevisions : /\ revisions'[r].policy_id = policy_id
                               /\ revisions'[r].dynamic_policy_id = dynamic_policy_id

(* C3: an edited flag that is true stays true over every step but a         *)
(* successful creation of a revision of its policy, and is false after      *)
(* that step.                                                               *)
C3_EditedClearedByRevision ==
    [][/\ \A p \in DOMAIN policies \cap DOMAIN policies' :
              IF RevisionCreated(p, NoId) THEN ~Edited(policies'[p])
              ELSE Edited(policies[p]) => Edited(policies'[p])
       /\ \A d \in DOMAIN dynamic_policies \cap DOMAIN dynamic_policies' :
              IF RevisionCreated(NoId, d) THEN ~Edited(dynamic_policies'[d])
              ELSE Edited(dynamic_policies[d]) => Edited(dynamic_policies'[d])
      ]_vars

NamesUnique(table) == \A a, b \in DOMAIN table : table[a].name = table[b].name => a = b

(* C6: after every request no two policies, no two networks, no two         *)
(* services, no two targets, no two deployers and no two tests share a      *)
(* name, and a create or rename answered 422 changes nothing.               *)
C6_NamesUnique ==
    [][/\ NamesUnique(policies') /\ NamesUnique(networks') /\ NamesUnique(services')
       /\ NamesUnique(targets') /\ NamesUnique(deployers') /\ NamesUnique(tests')
       /\ (/\ response'.status = 422
           /\ response'.op \in {"write_policy", "put_policy", "put_network",
                                "write_test", "put_test"})
              => UNCHANGED tables
      ]_vars

(* C4: the nested-reference graphs over networks, over services and over    *)
(* policies are acyclic after every request.                                *)
C4_NestedGraphsAcyclic ==
    Acyclic(NetworkEdges) /\ Acyclic(ServiceEdges) /\ Acyclic(PolicyEdges)

(* C7: of two interleaved creates of the same new network name at most one  *)
(* commits: no name is carried by two rows of the networks table.           *)
C7_AtMostOneCreateCommits ==
    \A name \in NetworkNames : Cardinality(NetworksNamed(name)) <= 1

(* C8: every address has exactly one of address / nested_network_id, every  *)
(* entry exactly one of (protocol, port) / nested_service_id, and every     *)
(* term is tactical (no nested_policy_id) or nested (nested_policy_id set   *)
(* and every tactical field null or empty).                                 *)
C8_ExactlyOneVariant ==
    /\ \A a \in DOMAIN addresses :
           (addresses[a].address # NoAddress) # (addresses[a].nested_network_id # NoId)
    /\ \A e \in DOMAIN entries :
           (entries[e].protocol # Null \/ entries[e].port # Null)
               # (entries[e].nested_service_id # NoId)
    /\ \A t \in DOMAIN terms :
           terms[t].nested_policy_id # NoId =>
               /\ terms[t].action = Null /\ terms[t].logging = Null
               /\ terms[t].negate_source_networks = Null
               /\ terms[t].negate_destination_networks = Null
               /\ terms[t].source_networks = {} /\ terms[t].destination_networks = {}

(* C5: a DELETE of a network, service or policy that some address, entry or *)
(* term nests is answered 403 and changes no table; a DELETE answered 200   *)
(* found no such reference and removed the object.                          *)
C5_ReferencedDeleteRejected ==
    [][/\ \A id \in 1..MaxNetworks : Answers("erase_network", id) =>
              /\ NestingAddresses(id) # {} => response'.status = 403 /\ UNCHANGED tables
              /\ response'.status = 200 =>
                     /\ NestingAddresses(id) = {}
                     /\ id \in DOMAIN networks /\ id \notin DOMAIN networks'
       /\ \A id \in 1..MaxServices : Answers("erase_service", id) =>
              /\ NestingEntries(id) # {} => response'.status = 403 /\ UNCHANGED tables
              /\ response'.status = 200 =>
                     /\ NestingEntries(id) = {}
                     /\ id \in DOMAIN services /\ id \notin DOMAIN services'
       /\ \A id \in 1..MaxPolicies : Answers("erase_policy", id) =>
              /\ NestingTerms(id) # {} => response'.status = 403 /\ UNCHANGED tables
              /\ response'.status = 200 =>
                     /\ NestingTerms(id) = {}
                     /\ id \in DOMAIN policies /\ id \notin DOMAIN policies'
      ]_vars

(* A network that another network's address nests was asked to be deleted   *)
(* and is still there, with the 403.                                        *)
C5_Witness ==
    /\ response.op = "erase_network" /\ response.status = 403
    /\ response.id \in DOMAIN networks
    /\ NestingAddresses(response.id) # {}

(* C9: a deploy request creates Deployment rows only for its revision's     *)
(* (config, deployer) pairs with equal target_id, each pending; it enqueues *)
(* one job per row, keyed by the row's id and named after the deployer's    *)
(* mode; when it answers, its rows match the pairs one to one, it answers   *)
(* 201 if there is a pair and 404, with no row and no job, if there is none.*)
C9_OneDeploymentPerPair ==
    [][/\ \A d \in DOMAIN deployments' \ DOMAIN deployments :
              /\ deploy.pc = "loop" /\ deploy'.pc = "enqueue" /\ deploy'.deployment = d
              /\ deployments'[d].status = "pending" /\ deployments'[d].output = Null
              /\ deployments'[d].revision_id = deploy.id
              /\ \E pair \in DeployPairs(deploy.id) : pair[2] = deployments'[d].deployer_id
       /\ \A j \in DOMAIN jobs' \ DOMAIN jobs :
              /\ deploy.pc = "enqueue" /\ j = deploy.deployment /\ j \in DOMAIN deployments
              /\ deploy'.deployment_ids = Append(deploy.deployment_ids, j)
              /\ jobs'[j].function = function_map(deployers[deployments[j].deployer_id].mode)
              /\ jobs'[j].function # Null
              /\ jobs'[j].kwargs.deployment_id = j
              /\ jobs'[j].state = "queued"
       /\ (deploy.pc = "enqueue" /\ deploy'.pc = "loop") =>
              DOMAIN jobs' \ DOMAIN jobs = {deploy.deployment}
       /\ (deploy.pc = "loop" /\ deploy'.pc = "idle") =>
              LET ids == Range(deploy.deployment_ids)
                  pairs == DeployPairs(deploy.id)
              IN /\ response'.op = "deploy_revision" /\ response'.id = deploy.id
                 /\ response'.status = IF pairs = {} THEN 404 ELSE 201
                 /\ Cardinality(ids) = Len(deploy.deployment_ids)
                 /\ Cardinality(ids) = Cardinality(pairs)
                 /\ ids \subseteq DOMAIN deployments /\ ids \subseteq DOMAIN jobs
                 /\ \A pair \in pairs :
                        Cardinality({d \in ids :
                                        /\ deployments[d].deployer_id = pair[2]
                                        /\ deployments[d].revision_id = deploy.id}) = 1
      ]_vars

(* Revision 1 was deployed to all three deployers: three rows, three jobs. *)
C9_Witness ==
    /\ response = Resp("deploy_revision", 201, 1) /\ deploy.pc = "idle"
    /\ Cardinality(DOMAIN deployments) = 3
    /\ DOMAIN jobs = DOMAIN deployments
    /\ \A d \in DOMAIN deployments : deployments[d].revision_id = 1

Terminal == {"completed", "failed"}

(* C10: a deployment's status moves only pending -> running, when a worker  *)
(* starts its job, and running -> completed / failed, when job_shutdown     *)
(* finds the job succeeded / failed; output is written only together with   *)
(* a terminal status, and a terminal status never changes.                  *)
C10_StatusPath ==
    [][/\ \A d \in DOMAIN deployments' \ DOMAIN deployments :
              deployments'[d].status = "pending"
       /\ \A d \in DOMAIN deployments \cap DOMAIN deployments' :
              LET old == deployments[d]
                  new == deployments'[d]
                  Ended(result) ==
                      \E w \in Workers :
                          /\ workers[w].pc = "ended" /\ workers'[w].pc = "idle"
                          /\ workers[w].deployment = d
                          /\ jobs[workers[w].job_id].result = result
              IN /\ old.status \in Terminal => new.status = old.status
                 /\ old.status # new.status =>
                        \/ /\ old.status = "pending" /\ new.status = "running"
                           /\ \E w \in Workers :
                                  /\ workers[w].pc = "idle" /\ workers'[w].pc = "started"
                                  /\ workers'[w].deployment = d
                        \/ /\ old.status = "running" /\ new.status = "completed"
                           /\ Ended("success") /\ new.output = LogOutput
                        \/ /\ old.status = "running" /\ new.status = "failed"
                           /\ Ended("failure") /\ new.output = LogOutput
                 /\ old.output # new.output => new.status \in Terminal
                 /\ Ended("success") => new.status = "completed"
                 /\ Ended("failure") => new.status = "failed"
       /\ \A w \in Workers :
              (workers[w].pc = "idle" /\ workers'[w].pc = "started") =>
                  deployments'[workers'[w].deployment].status = "running"
      ]_vars

(* One deployment ran to completed and another to failed, each with its log. *)
C10_Witness ==
    \E a, b \in DOMAIN deployments :
        /\ deployments[a].status = "completed" /\ deployments[a].output = LogOutput
        /\ deployments[b].status = "failed" /\ deployments[b].output = LogOutput

(* C11: with several worker processes on the one queue, a job is executed   *)
(* by one worker only, so that no two workers hold the same job, modify the *)
(* same Deployment row or capture the log of the same job.                  *)
C11_OneWorkerPerJob ==
    \A w1, w2 \in DOMAIN workers :
        (w1 # w2 /\ workers[w1].pc # "idle" /\ workers[w2].pc # "idle")
            => /\ workers[w1].job_id # workers[w2].job_id
               /\ workers[w1].deployment # workers[w2].deployment

(* C12: while a revision exists its json_data and its expanded_terms are    *)
(* what they were, whatever request is served, and each of its              *)
(* RevisionConfigs is still there with the config text it had.              *)
C12_RevisionFrozen ==
    [][/\ \A r \in DOMAIN revisions \cap DOMAIN revisions' :
              /\ revisions'[r].json_data = revisions[r].json_data
              /\ revisions'[r].expanded_terms = revisions[r].expanded_terms
       /\ \A c \in DOMAIN revision_configs :
              revision_configs[c].revision_id \in DOMAIN revisions'
                  => /\ c \in DOMAIN revision_configs'
                     /\ revision_configs'[c].config = revision_configs[c].config
      ]_vars

(* The revision has exactly one RevisionConfig for every target its policy  *)
(* had when the revision was created, and no other.                         *)
RevisionComplete(r) ==
    /\ \A t \in revisions[r].json_data.targets :
           Cardinality({c \in ConfigsOf({r}) : revision_configs[c].target_id = t}) = 1
    /\ \A c \in ConfigsOf({r}) : revision_configs[c].target_id \in revisions[r].json_data.targets

(* C13: POST /revisions persists a Revision together with one               *)
(* RevisionConfig for every target of the policy or, when it fails, nothing: *)
(* every revision of every reachable state is complete.                      *)
C13_RevisionWithItsConfigs ==
    [][/\ \A r \in DOMAIN revisions' : RevisionComplete(r)'
       /\ (response'.op = "write_revision" /\ response'.status # 201)
              => UNCHANGED <<revisions, revision_configs>>
      ]_vars

(* The ways from a term of policy p down to a tactical term: each term of   *)
(* the way but the last nests the policy of the next.                       *)
NestingPaths(p) ==
    {path \in UNION {[1..k -> DOMAIN terms] : k \in 1..Cardinality(DOMAIN policies)} :
        /\ terms[path[1]].policy_id = p
        /\ terms[path[Len(path)]].nested_policy_id = NoId
        /\ \A j \in 1..(Len(path) - 1) :
               /\ terms[path[j]].nested_policy_id # NoId
               /\ terms[path[j]].nested_policy_id = terms[path[j + 1]].policy_id}

(* Way a comes before way b: where they part, a's term is ranked first. *)
PathBefore(a, b) ==
    \E j \in 1..Min(Len(a), Len(b)) :
        /\ \A i \in 1..(j - 1) : a[i] = b[i]
        /\ a[j] # b[j]
        /\ RankLess(terms[a[j]].lex_order, terms[b[j]].lex_order)

(* The policies reached from p by nesting, p included. *)
NestedFrom(p) == Closure({p}, PolicyEdges)

(* C14: the expanded terms a revision of policy p stores, when no circle of *)
(* nesting is reached from p, are the tactical terms at the end of the ways *)
(* down from p, one for each way, in the order of the ways: no nested term  *)
(* is left, the order of the terms is kept with every nested term replaced  *)
(* in place, disabled terms are there, and a policy nested twice gives its  *)
(* terms twice.                                                             *)
C14_ExpansionInPlace ==
    [][\A r \in NewRevisions :
           LET p == revisions'[r].policy_id
               out == revisions'[r].expanded_terms
               ways == NestingPaths(p)
               Place(w) == 1 + Cardinality({v \in ways : PathBefore(v, w)})
           IN Acyclic({e \in PolicyEdges : e[1] \in NestedFrom(p)})
                  => /\ Len(out) = Cardinality(ways)
                     /\ \A w \in ways : out[Place(w)] = terms[w[Len(w)]]
      ]_vars

(* A revision of a policy that nests one policy through two ways, stored    *)
(* with a disabled term in it twice.                                        *)
C14_Witness ==
    \E r \in DOMAIN revisions :
        LET out == revisions[r].expanded_terms
        IN /\ Acyclic(PolicyEdges)
           /\ \E t \in DOMAIN terms : terms[t].nested_policy_id # NoId
           /\ \E i, j \in DOMAIN out : i < j /\ out[i] = out[j] /\ ~out[i].enabled

(* C15: expanding a policy from which a circle of nesting is reached ends   *)
(* with the circle detected: POST /revisions is never answered by the       *)
(* server error of a recursion that ran until the interpreter stopped it.   *)
C15_CycleDetected ==
    [][response'.op = "write_revision" => response'.status # 500]_vars

(* The addresses of a network. *)
Hosts(net) == {a \in 0..(2 ^ AddressBits - 1) : subnet_of(<<a, AddressBits>>, net)}

(* C16: for a list E of IPv4 networks no two of which overlap, the networks *)
(* exclude_networks returns do not overlap each other, hold no address of a *)
(* network of E, and make up the whole space together with E.               *)
C16_Complement ==
    call.pc = "returned" =>
        LET E == call.arguments[1]
            nets == call.result
        IN /\ \A i, j \in DOMAIN nets : i # j => Hosts(nets[i]) \cap Hosts(nets[j]) = {}
           /\ \A i \in DOMAIN nets, j \in DOMAIN E : Hosts(nets[i]) \cap Hosts(E[j]) = {}
           /\ UNION {Hosts(nets[i]) : i \in DOMAIN nets} \cup UNION {Hosts(E[j]) : j \in DOMAIN E}
                  = Hosts(IPv4Space)

(* C17: after any term create and update requests, a stored term that       *)
(* negates its source networks has source networks, and one that negates    *)
(* its destination networks has destination networks.                       *)
C17_NegationHasNetworks ==
    \A t \in DOMAIN terms :
        /\ terms[t].negate_source_networks = "True" => terms[t].source_networks # {}
        /\ terms[t].negate_destination_networks = "True"
               => terms[t].destination_networks # {}

(* The address rows of network n that are leaf addresses. *)
LeafAddresses(n) ==
    {a \in NetworkAddresses(n) :
        addresses[a].address # NoAddress /\ addresses[a].nested_network_id = NoId}

(* C18: fetch_networks selects a network that owns leaf addresses if and    *)
(* only if every address of the network is a leaf address that overlaps a   *)
(* network of the filter.                                                   *)
C18_SelectedIffContained ==
    (call.pc = "returned" /\ call.function = "fetch_networks") =>
        \A n \in DOMAIN networks :
            LeafAddresses(n) # {} =>
                ((call.result.ok /\ n \in call.result.value)
                    <=> \A a \in NetworkAddresses(n) :
                            /\ a \in LeafAddresses(n)
                            /\ \E f \in call.arguments[1] : Overlaps(addresses[a].address, f))

(* C19: every term the resolver returns for a filter it also returns for    *)
(* the filter over the whole address space, terms with a negated side       *)
(* included.                                                                *)
C19_MonotoneToFullSpace ==
    (call.pc = "returned" /\ call.function = "fetch_terms") =>
        (call.result.filtered.ok =>
            /\ call.result.full.ok
            /\ Range(call.result.filtered.value) \subseteq Range(call.result.full.value))

(* The terms of policy 1 other than t are in the same order after the step. *)
OthersKeepOrder(t) ==
    \A u, w \in TermsOf(1) \ {t} :
        RankLess(terms[u].lex_order, terms[w].lex_order)
            <=> RankLess(terms'[u].lex_order, terms'[w].lex_order)

(* C20: a term created or updated with position p, p from 1 to the number   *)
(* of terms of the policy, is then at position p, and the other terms keep  *)
(* their order.                                                             *)
C20_TermAtPosition ==
    [][\A v \in PositionTermValues :
           /\ (/\ write_policy_term(1, v)
               /\ response'.status = 201
               /\ v.position <= Cardinality(TermsOf(1)'))
                  => \A t \in DOMAIN terms' \ DOMAIN terms :
                         term_position(t)' = v.position /\ OthersKeepOrder(t)
           /\ \A t \in TermsOf(1) :
                  (/\ put_policy_terms(1, t, v)
                   /\ response'.status = 200
                   /\ v.position <= Cardinality(TermsOf(1)))
                      => term_position(t)' = v.position /\ OthersKeepOrder(t)
      ]_vars

----------------------------------------------------------------------------
(* Authentication: the bearer token of a request and the Security           *)
(* dependency of an endpoint.  A token that does not decode (bad signature, *)
(* expired, no subject) is not valid; a valid one carries its scopes.       *)

Scopes == {"networks:write", "services:write"}

Tokens == [valid : {FALSE}, scopes : {{}}] \cup [valid : {TRUE}, scopes : SUBSET Scopes]

(* get_current_user: 401 for a token that does not decode, 403 for a        *)
(* required scope the token lacks, otherwise the user (0 here).             *)
get_current_user(security_scopes, token) ==
    IF ~token.valid THEN 401
    ELSE IF \E scope \in security_scopes : scope \notin token.scopes THEN 403
    ELSE 0

(* A request stopped by its dependency: the handler body does not run.      *)
Denied(op, status) ==
    /\ response' = Resp(op, status, NoId)
    /\ UNCHANGED <<tables, call, session, adaptor>>

(* DELETE /networks/{network_id}: Security(get_current_user,                *)
(* scopes=["networks:write"]).                                              *)
request_erase_network(token, id) ==
    LET current_user == get_current_user({"networks:write"}, token)
    IN  IF current_user # 0
        THEN Denied("erase_network", current_user)
        ELSE erase_network(id)

(* POST /networks/{network_id}/addresses: the same dependency.              *)
request_write_network_address(token, network_id, values) ==
    LET current_user == get_current_user({"networks:write"}, token)
    IN  IF current_user # 0
        THEN Denied("write_network_address", current_user)
        ELSE write_network_address(network_id, values)

(* POST /services: the name pre-check (a RequestValidationError is a 422),  *)
(* then service_crud.create.                                                *)
write_service(values) ==
    /\ IF \E s \in DOMAIN services : services[s].name = values.name
       THEN /\ response' = Resp("write_service", 422, NoId)
            /\ UNCHANGED <<services, service_seq>>
       ELSE /\ service_seq' = service_seq + 1
            /\ services' = Insert(services, service_seq + 1, [name |-> values.name])
            /\ response' = Resp("write_service", 201, service_seq + 1)
    /\ UNCHANGED <<entries, entry_seq, netVars, polVars, auxVars, revVars, call, session, adaptor, depVars>>

(* POST /services: the handler declares no dependency on the token (its     *)
(* parameters are values and db), so the token is not looked at.            *)
request_write_service(token, values) == write_service(values)

(* DELETE /services/{id}: no dependency on the token either.                *)
request_erase_service(token, id) == erase_service(id)

(* POST /revisions/{id}/deploy: no dependency on the token either (the      *)
(* parameters of deploy_revision are id and db).                     *)
request_deploy_revision(token, id) == deploy_revision_begin(id)

ServiceNames == {"svc_a", "svc_c"}

NextAuth ==
    \/ \E token \in Tokens, id \in 1..MaxNetworks : request_erase_network(token, id)
    \/ \E token \in Tokens, n \in 1..MaxNetworks, v \in NetworkAddressCreateValues :
           request_write_network_address(token, n, v)
    \/ \E token \in Tokens, name \in ServiceNames :
           /\ service_seq < MaxServices + 1
           /\ request_write_service(token, [name |-> name])
    \/ \E token \in Tokens, id \in 1..MaxServices : request_erase_service(token, id)
    \/ \E token \in Tokens, id \in 1..MaxRevisions : request_deploy_revision(token, id)

SpecAuth == InitRefs /\ [][NextAuth]_vars

(* The scopes the API asks for on the state-changing endpoints of an        *)
(* entity: "<entity>:write".                                                *)
Authorized(token, scope) == token.valid /\ scope \in token.scopes

(* C21: a state-changing request is executed only with a valid token that   *)
(* holds the required scope: with an invalid token the answer is 401, with  *)
(* a valid token lacking the scope it is 403, and in both cases no table    *)
(* changes.                                                                 *)
C21_WritesNeedToken ==
    [][\A token \in Tokens :
           LET Refused(scope) ==
                   /\ response'.status = (IF token.valid THEN 403 ELSE 401)
                   /\ UNCHANGED tables
           IN  /\ ~Authorized(token, "networks:write") =>
                    /\ \A id \in 1..MaxNetworks :
                           request_erase_network(token, id) => Refused("networks:write")
                    /\ \A n \in 1..MaxNetworks, v \in NetworkAddressCreateValues :
                           request_write_network_address(token, n, v)
                               => Refused("networks:write")
               /\ ~Authorized(token, "services:write") =>
                    /\ \A name \in ServiceNames :
                           request_write_service(token, [name |-> name])
                               => Refused("services:write")
                    /\ \A id \in 1..MaxServices :
                           request_erase_service(token, id) => Refused("services:write")
               /\ ~token.valid =>
                    \A id \in 1..MaxRevisions :
                        request_deploy_revision(token, id) => Refused("revisions:write")
      ]_vars

(* The networks made of nested references only. *)
NestedOnly(n) ==
    /\ NetworkAddresses(n) # {}
    /\ \A a \in NetworkAddresses(n) : addresses[a].nested_network_id # NoId

(* C22: a network whose addresses are all nested references is in the       *)
(* result of fetch_networks exactly when every network it references is in  *)
(* the result.                                                              *)
C22_PromotionFixpoint ==
    (call.pc = "returned" /\ call.function = "fetch_networks" /\ call.result.ok) =>
        \A n \in DOMAIN networks :
            NestedOnly(n) =>
                (n \in call.result.value
                    <=> \A a \in NetworkAddresses(n) :
                            addresses[a].nested_network_id \in call.result.value)

----------------------------------------------------------------------------
(* The resolver of core/utils/dynamic_policy_helpers.py: fetch_terms with   *)
(* the customization of the terms it returns, and the session it works on.  *)

(* A call of fetch_terms and its return. *)
call_fetch_terms ==
    /\ call.pc = "called" /\ call.function = "dynamic_policy_helpers.fetch_terms"
    /\ LET returned == fetch_customized_terms(session, call.arguments[1], call.arguments[2],
                                              call.arguments[3], call.arguments[4])
       IN /\ call' = [call EXCEPT !.pc = "returned", !.result = returned.terms]
          /\ session' = returned.session
    /\ UNCHANGED <<netVars, svcVars, polVars, auxVars, revVars, depVars, adaptor, response>>

(* db.commit() after the call: the flush writes the relationship lists of   *)
(* the objects attached to the session.                                     *)
commit ==
    /\ call.pc = "returned" /\ call.function = "dynamic_policy_helpers.fetch_terms"
    /\ terms' = [t \in DOMAIN terms |->
                    IF t \in DOMAIN session
                    THEN [terms[t] EXCEPT
                             !.source_networks = session[t].source_networks,
                             !.destination_networks = session[t].destination_networks]
                    ELSE terms[t]]
    /\ call' = [call EXCEPT !.pc = "committed"]
    /\ UNCHANGED <<policies, policy_seq, term_seq, netVars, svcVars, auxVars, revVars,
                   depVars, session, adaptor,
                   response>>

(* A stored term of policy pol_a or pol_b. *)
CustomTermRow(i, policy_id, action, source_networks, destination_networks, negate_source, negate_destination) ==
    [policy_id |-> policy_id, name |-> ToString(i), lex_order |-> <<i>>,
     enabled |-> TRUE, action |-> action, logging |-> "False",
     negate_source_networks |-> negate_source,
     negate_destination_networks |-> negate_destination,
     nested_policy_id |-> NoId, source_networks |-> source_networks,
     destination_networks |-> destination_networks]

(* Term 1 allows everything in policy pol_b; term 2 is any term of pol_a or *)
(* pol_b; the call has any selected sets, policy filter and action filter.  *)
InitCustomize ==
    /\ networks = [n \in (1..MaxNetworks) |-> [name |-> ToString(n)]]
    /\ network_seq = MaxNetworks
    /\ addresses = << >> /\ address_seq = 0
    /\ pending = [c \in Clients |-> NoName]
    /\ services = << >> /\ service_seq = 0
    /\ entries = << >> /\ entry_seq = 0
    /\ policies = <<[name |-> "pol_a", targets |-> {}, tests |-> {}],
                    [name |-> "pol_b", targets |-> {}, tests |-> {}]>>
    /\ policy_seq = 2
    /\ \E policy_id \in 1..2, action \in {"accept", "deny"},
          source \in SUBSET (1..MaxNetworks), destination \in SUBSET (1..MaxNetworks),
          negate_source \in {"False", "True"}, negate_destination \in {"False", "True"} :
           terms = <<CustomTermRow(1, 2, "accept", {}, {}, "False", "False"),
                     CustomTermRow(2, policy_id, action, source, destination,
                                   negate_source, negate_destination)>>
    /\ term_seq = 2
    /\ targets = << >>
    /\ tests = << >> /\ test_seq = 0
    /\ dynamic_policies = << >> /\ dynamic_policy_seq = 0
    /\ revisions = << >> /\ revision_seq = 0
    /\ revision_configs = << >> /\ config_seq = 0
    /\ revise = NoRevision
    /\ \E source_network_ids \in SUBSET (1..MaxNetworks),
          destination_network_ids \in SUBSET (1..MaxNetworks),
          policy_ids \in {{}, {1}}, filter_action \in {Null, "accept"} :
           call = [pc |-> "called", function |-> "dynamic_policy_helpers.fetch_terms",
                   arguments |-> <<source_network_ids, destination_network_ids,
                                   policy_ids, filter_action>>,
                   result |-> << >>]
    /\ session = NoSession /\ adaptor = NoAdaptor
    /\ deployers = << >>
    /\ deployments = << >> /\ deployment_seq = 0
    /\ jobs = << >>
    /\ workers = [w \in Workers |-> IdleWorker]
    /\ deploy = NoRequest
    /\ response = Resp("none", 0, NoId)

NextCustomize ==
    \/ call_fetch_terms
    \/ commit

SpecCustomize == InitCustomize /\ [][NextCustomize]_vars

(* The call of fetch_terms has returned. *)
FetchTermsReturned ==
    /\ call.pc \in {"returned", "committed"}
    /\ call.function = "dynamic_policy_helpers.fetch_terms"

(* A side of a term matches the selected set `ids` (as the claim has it). *)
SideMatches(list, negate, ids) ==
    \/ list = {}
    \/ negate # "True" /\ list \cap ids # {}
    \/ negate = "True" /\ list \ ids # {}

(* The terms the claim selects, with `unfiltered` telling whether a side    *)
(* with an empty selected set matches every term.                           *)
SelectedAsClaimed(t, unfiltered) ==
    LET source_network_ids == call.arguments[1]
        destination_network_ids == call.arguments[2]
        policy_ids == call.arguments[3]
        filter_action == call.arguments[4]
    IN /\ \/ unfiltered /\ source_network_ids = {}
          \/ SideMatches(terms[t].source_networks, terms[t].negate_source_networks,
                         source_network_ids)
       /\ \/ unfiltered /\ destination_network_ids = {}
          \/ SideMatches(terms[t].destination_networks,
                         terms[t].negate_destination_networks, destination_network_ids)
       /\ policy_ids # {} => terms[t].policy_id \in policy_ids
       /\ filter_action # Null => terms[t].action = filter_action

ReturnedIds == {call.result[i].id : i \in DOMAIN call.result}

(* C23 as stated: the resolver returns a term exactly when each side is     *)
(* empty, or not negated with a network in the selected set, or negated     *)
(* with a network outside the selected set, and the policy and action       *)
(* filters hold.                                                            *)
C23_SelectedExactly ==
    (FetchTermsReturned /\ call.pc = "returned") =>
        \A t \in DOMAIN terms : t \in ReturnedIds <=> SelectedAsClaimed(t, FALSE)

(* C23 amended: the same, where a side whose selected set is empty matches  *)
(* every term.                                                              *)
C23_SelectedExactlyOrUnfiltered ==
    (FetchTermsReturned /\ call.pc = "returned") =>
        \A t \in DOMAIN terms : t \in ReturnedIds <=> SelectedAsClaimed(t, TRUE)

(* A negated term is returned for a selected set that holds one of its      *)
(* networks but not the other, and a term is left out.                      *)
C23_Witness ==
    /\ FetchTermsReturned
    /\ call.arguments[1] # {}
    /\ 2 \in ReturnedIds
    /\ terms[2].negate_source_networks = "True"
    /\ terms[2].source_networks \cap call.arguments[1] # {}
    /\ 1 \notin ReturnedIds

(* The side of a returned copy is the stored list, cut down to the selected *)
(* set when both are non-empty.                                             *)
SideCustomized(returned, stored, ids) ==
    returned = IF stored # {} /\ ids # {} THEN stored \cap ids ELSE stored

(* C24: the terms a call of the resolver returns have each non-empty side   *)
(* with a non-empty selected set cut down to that set and every other side  *)
(* as stored; no step, the call and a commit after it included, changes the *)
(* stored terms and their network lists.                                    *)
C24_CustomizedCopiesOnly ==
    [][/\ terms' = terms
       /\ call_fetch_terms =>
              \A i \in DOMAIN call'.result :
                  LET term == call'.result[i]
                  IN /\ SideCustomized(term.source_networks,
                                       terms[term.id].source_networks, call.arguments[1])
                     /\ SideCustomized(term.destination_networks,
                                       terms[term.id].destination_networks,
                                       call.arguments[2])
      ]_vars

(* A commit has followed a call that returned a term with a side cut down. *)
C24_Witness ==
    /\ call.pc = "committed"
    /\ \E i \in DOMAIN call.result :
           call.result[i].source_networks # terms[call.result[i].id].source_networks

----------------------------------------------------------------------------
(* The deploy functions of the worker (core/worker/functions): deploy_git   *)
(* and deploy_proxmox_nft step by step, between job_startup and             *)
(* job_shutdown.                                                            *)

(* PUT /deployers/{id}: the name check compares Deployer.id with itself and *)
(* finds nothing; the target of the body must exist.                        *)
put_deployers(id, values) ==
    /\ IF id \notin DOMAIN deployers
       THEN /\ response' = Resp("put_deployers", 404, id)
            /\ UNCHANGED deployers
       ELSE IF values.target \notin DOMAIN targets
       THEN /\ response' = Resp("put_deployers", 422, id)
            /\ UNCHANGED deployers
       ELSE /\ deployers' = [deployers EXCEPT ![id].name = values.name,
                                              ![id].target_id = values.target]
            /\ response' = Resp("put_deployers", 200, id)
    /\ UNCHANGED <<deployments, deployment_seq, jobs, workers, deploy,
                   netVars, svcVars, polVars, auxVars, revVars, call, session, adaptor>>

(* arq records how the deploy function ended, as in run_job: a function     *)
(* that returns, whatever it returns, is a success.                         *)
EndJob(w, a) ==
    /\ adaptor' = [adaptor EXCEPT ![w] = a]
    /\ jobs' = [jobs EXCEPT
                   ![workers[w].job_id] =
                       [@ EXCEPT !.state = "complete",
                                 !.result = IF a.pc = "returned"
                                            THEN "success" ELSE "failure"]]
    /\ workers' = [workers EXCEPT ![w].pc = "ended"]

(* The deploy function goes on. *)
GoOn(w, a) ==
    /\ adaptor' = [adaptor EXCEPT ![w] = a]
    /\ UNCHANGED <<jobs, workers>>

(* The commands deploy_proxmox_nft runs on the host, in the order of its    *)
(* list.                                                                    *)
commands ==
    <<"mkdir -p", "echo > file", "nft -c -f file", "nft add table bridge",
      "nft flush table bridge">>

(* Both functions start alike: the deployer of the job is loaded (a deleted *)
(* deployer is None, and the function raises on its target_id), then the    *)
(* RevisionConfig of the revision for the deployer's target; without one    *)
(* the function returns False.                                              *)
load_revision_config(w) ==
    /\ workers[w].pc = "started"
    /\ adaptor[w].pc \in {"idle", "returned", "raised"}
    /\ LET job_def == jobs[workers[w].job_id]
           deployer_id == job_def.kwargs.deployer_id
           revision_config ==
               {c \in DOMAIN revision_configs :
                   /\ revision_configs[c].revision_id = job_def.kwargs.revision_id
                   /\ revision_configs[c].target_id = deployers[deployer_id].target_id}
           a == [pc |-> "config", function |-> job_def.function,
                 revision_config |-> FALSE, key_written |-> FALSE, key_file |-> FALSE,
                 repo |-> FALSE, issued |-> << >>, delivered |-> FALSE]
       IN /\ job_def.function \in {"deploy_git", "deploy_proxmox_nft"}
          /\ IF deployer_id \notin DOMAIN deployers
             THEN EndJob(w, [a EXCEPT !.pc = "raised"])
             ELSE IF revision_config = {}
             THEN EndJob(w, [a EXCEPT !.pc = "returned"])
             ELSE IF Cardinality(revision_config) > 1
             THEN EndJob(w, [a EXCEPT !.pc = "raised"])
             ELSE GoOn(w, [a EXCEPT !.revision_config = TRUE,
                                    !.pc = IF job_def.function = "deploy_git"
                                           THEN "key" ELSE "connect"])
    /\ UNCHANGED <<deployers, deployments, deployment_seq, deploy, response,
                   netVars, svcVars, polVars, auxVars, revVars, call, session>>

(* deploy_git, step 1: the SSH key is written to a temporary file that is   *)
(* kept when it is closed (delete=False).                                   *)
deploy_git_key(w) ==
    /\ workers[w].pc = "started" /\ adaptor[w].pc = "key"
    /\ GoOn(w, [adaptor[w] EXCEPT !.pc = "clone", !.key_written = TRUE, !.key_file = TRUE])
    /\ UNCHANGED <<deployers, deployments, deployment_seq, deploy, response,
                   netVars, svcVars, polVars, auxVars, revVars, call, session>>

(* The finally clause of deploy_git: repo.close(), then os.remove(key_path). *)
(* When the clone did not return, `repo` is not bound: repo.close() raises   *)
(* UnboundLocalError and the key file is not removed.                        *)
finally(a, outcome) ==
    IF a.repo THEN [a EXCEPT !.pc = outcome, !.key_file = FALSE]
    ELSE [a EXCEPT !.pc = "raised"]

(* deploy_git, the try block: chmod and clone, the ACL file written, the    *)
(* diff (no change: return True), add and commit, push.  A step that fails  *)
(* raises; the except clause logs and raises again.                         *)
deploy_git_try(w, ok) ==
    /\ workers[w].pc = "started"
    /\ adaptor[w].pc \in {"clone", "write", "diff", "commit", "push"}
    /\ LET a == adaptor[w]
       IN CASE a.pc = "clone" ->
                   IF ok THEN GoOn(w, [a EXCEPT !.pc = "write", !.repo = TRUE])
                   ELSE EndJob(w, finally(a, "raised"))
            [] a.pc = "write" ->
                   IF ok THEN GoOn(w, [a EXCEPT !.pc = "diff"])
                   ELSE EndJob(w, finally(a, "raised"))
            [] a.pc = "diff" ->
                   IF ok THEN GoOn(w, [a EXCEPT !.pc = "commit"])
                   ELSE EndJob(w, finally([a EXCEPT !.delivered = TRUE], "returned"))
            [] a.pc = "commit" ->
                   IF ok THEN GoOn(w, [a EXCEPT !.pc = "push"])
                   ELSE EndJob(w, finally(a, "raised"))
            [] a.pc = "push" ->
                   IF ok THEN EndJob(w, finally([a EXCEPT !.delivered = TRUE], "returned"))
                   ELSE EndJob(w, finally(a, "raised"))
    /\ UNCHANGED <<deployers, deployments, deployment_seq, deploy, response,
                   netVars, svcVars, polVars, auxVars, revVars, call, session>>

(* deploy_proxmox_nft: ssh.connect. *)
deploy_proxmox_nft_connect(w, ok) ==
    /\ workers[w].pc = "started" /\ adaptor[w].pc = "connect"
    /\ IF ok THEN GoOn(w, [adaptor[w] EXCEPT !.pc = "commands"])
       ELSE EndJob(w, [adaptor[w] EXCEPT !.pc = "raised"])
    /\ UNCHANGED <<deployers, deployments, deployment_seq, deploy, response,
                   netVars, svcVars, polVars, auxVars, revVars, call, session>>

(* deploy_proxmox_nft, the loop: the next command is executed; a non-empty  *)
(* stderr raises RuntimeError; after the last command the connection is     *)
(* closed and the function returns.                                         *)
deploy_proxmox_nft_command(w, error) ==
    /\ workers[w].pc = "started" /\ adaptor[w].pc = "commands"
    /\ LET a == adaptor[w]
           command == commands[Len(a.issued) + 1]
           issued == Append(a.issued, [command |-> command, error |-> error])
       IN IF error THEN EndJob(w, [a EXCEPT !.issued = issued, !.pc = "raised"])
          ELSE IF Len(issued) = Len(commands)
          THEN EndJob(w, [a EXCEPT !.issued = issued, !.pc = "returned",
                                   !.delivered = TRUE])
          ELSE GoOn(w, [a EXCEPT !.issued = issued])
    /\ UNCHANGED <<deployers, deployments, deployment_seq, deploy, response,
                   netVars, svcVars, polVars, auxVars, revVars, call, session>>

(* The deployment store with a git and a proxmox-nft deployer. *)
InitAdaptor ==
    /\ InitDeploy
    /\ \A d \in DOMAIN deployers : deployers[d].mode # "netmiko"

DeployerValues == [name : {"dep_a"}, target : 1..MaxTargets]

NextAdaptor ==
    \/ \E id \in DOMAIN revisions :
           /\ deployment_seq + Cardinality(DeployPairs(id)) <= MaxAdaptorDeployments
           /\ deploy_revision_begin(id)
    \/ deploy_revision_deployers
    \/ deploy_revision_commit
    \/ deploy_revision_enqueue
    \/ deploy_revision_end
    \/ \E id \in DOMAIN deployers, values \in DeployerValues :
           /\ deploy.pc = "idle"
           /\ put_deployers(id, values)
    \/ \E w \in Workers, j \in 1..MaxAdaptorDeployments : job_startup(w, j)
    \/ \E w \in Workers : load_revision_config(w)
    \/ \E w \in Workers : deploy_git_key(w)
    \/ \E w \in Workers, ok \in BOOLEAN : deploy_git_try(w, ok)
    \/ \E w \in Workers, ok \in BOOLEAN : deploy_proxmox_nft_connect(w, ok)
    \/ \E w \in Workers, error \in BOOLEAN : deploy_proxmox_nft_command(w, error)
    \/ \E w \in Workers : job_shutdown(w)

SpecAdaptor == InitAdaptor /\ [][NextAdaptor]_vars

(* C25: on every exit of deploy_git after the SSH key was written to its    *)
(* scratch file, the file has been removed when the function returns or     *)
(* raises.                                                                  *)
C25_KeyFileRemoved ==
    \A w \in Workers :
        (/\ adaptor[w].pc \in {"returned", "raised"}
         /\ adaptor[w].function = "deploy_git"
         /\ adaptor[w].key_written) => ~adaptor[w].key_file

(* The remote commands of a proxmox-nft deployment, as the claim orders     *)
(* them.                                                                    *)
ClaimedCommands ==
    <<"echo > file", "nft -c -f file", "nft add table bridge", "nft flush table bridge",
      "nft -f file">>

IsPrefix(s, t) == Len(s) <= Len(t) /\ \A i \in DOMAIN s : s[i] = t[i]

(* C26: a proxmox-nft deployment issues its commands in the order write the *)
(* file, validate, add the table, flush the table, load the file; a command *)
(* is issued only when every earlier one left stderr empty; a job that ends *)
(* without failure has loaded the file after the flush.                     *)
C26_CommandsInOrder ==
    \A w \in Workers :
        (adaptor[w].pc # "idle" /\ adaptor[w].function = "deploy_proxmox_nft") =>
            LET issued == adaptor[w].issued
                names == [i \in DOMAIN issued |-> issued[i].command]
                Claimed(name) == \E i \in DOMAIN ClaimedCommands : ClaimedCommands[i] = name
            IN /\ IsPrefix(SelectSeq(names, Claimed), ClaimedCommands)
               /\ \A i, j \in DOMAIN issued : i < j => ~issued[i].error
               /\ (adaptor[w].pc = "returned" /\ adaptor[w].revision_config) =>
                      \E i, j \in DOMAIN issued :
                          /\ i < j
                          /\ names[i] = "nft flush table bridge"
                          /\ names[j] = "nft -f file"

(* C28: a Deployment becomes completed only when its deploy function found  *)
(* the RevisionConfig of the deployer's target and carried the delivery to  *)
(* its end.                                                                 *)
C28_CompletedOnlyDelivered ==
    [][\A d \in DOMAIN deployments :
           (deployments'[d].status = "completed" /\ deployments[d].status # "completed") =>
               \E w \in Workers :
                   /\ workers[w].deployment = d
                   /\ adaptor[w].revision_config
                   /\ adaptor[w].delivered
      ]_vars

----------------------------------------------------------------------------
(* The enqueue call of deploy_revision fails (the pool raises, e.g. the     *)
(* queue is unreachable): the Deployment committed just before stays, the   *)
(* exception ends the request with a 500.                                   *)
deploy_revision_enqueue_fails ==
    /\ deploy.pc = "enqueue"
    /\ response' = Resp("deploy_revision", 500, deploy.id)
    /\ deploy' = NoRequest
    /\ UNCHANGED <<deployers, deployments, deployment_seq, jobs, workers,
                   netVars, svcVars, polVars, auxVars, revVars, call, session, adaptor>>

NextEnqueue ==
    \/ NextDeploy
    \/ deploy_revision_enqueue_fails

SpecEnqueue == InitDeploy /\ [][NextEnqueue]_vars

(* Every pending Deployment has its job queued, or is the one the handler   *)
(* has committed and is about to enqueue.                                   *)
PendingHasJob ==
    \A d \in DOMAIN deployments :
        deployments[d].status = "pending" =>
            \/ d \in DOMAIN jobs /\ jobs[d].state = "queued"
            \/ deploy.pc = "enqueue" /\ deploy.deployment = d

(* C27: whatever the interleaving of the handler and the workers, and also  *)
(* when an enqueue call fails, a pending Deployment has its job in the      *)
(* queue (or about to be put there), and a worker starts a job only when    *)
(* the Deployment the job names is committed.                               *)
C27_PendingHasJob ==
    [][/\ PendingHasJob'
       /\ \A w \in Workers, j \in DOMAIN jobs :
              (job_startup(w, j) /\ workers'[w].pc = "started") =>
                  jobs[j].kwargs.deployment_id \in DOMAIN deployments
      ]_vars

----------------------------------------------------------------------------
(* The two resolvers on one store: POST /revisions for a dynamic policy     *)
(* (fetch_terms of api/v1/revisions.py) and the test run of the same        *)
(* dynamic policy (fetch_terms of dynamic_policy_helpers).                  *)

(* The test run of a dynamic policy up to the list of terms it hands to     *)
(* run_tests.                                                               *)
call_get_tests_run ==
    /\ call.pc = "called" /\ call.function = "get_tests_run"
    /\ call.arguments[1] \in DOMAIN dynamic_policies
    /\ call' = [call EXCEPT
                   !.pc = "returned",
                   !.result = TestDynamicPolicyTerms(dynamic_policies[call.arguments[1]])]
    /\ UNCHANGED <<netVars, svcVars, polVars, auxVars, revVars, depVars, session, adaptor,
                   response>>

(* Networks 1..MaxNetworks with one leaf each, two terms of policy pol_a    *)
(* in either order of their ranks, and a dynamic policy with any filters.   *)
InitSnapshot ==
    /\ networks = [n \in (1..MaxNetworks) |-> [name |-> ToString(n)]]
    /\ network_seq = MaxNetworks
    /\ addresses = [n \in (1..MaxNetworks) |->
                       [network_id |-> n, nested_network_id |-> NoId,
                        address |-> <<(2 * (n - 1)) % (2 ^ AddressBits), AddressBits>>]]
    /\ address_seq = MaxNetworks
    /\ pending = [c \in Clients |-> NoName]
    /\ services = << >> /\ service_seq = 0
    /\ entries = << >> /\ entry_seq = 0
    /\ policies = <<[name |-> "pol_a", targets |-> {}, tests |-> {}]>>
    /\ policy_seq = 1
    /\ \E first \in 1..2,
          source_of \in [1..2 -> SUBSET (1..MaxNetworks)],
          destination_of \in [1..2 -> SUBSET (1..MaxNetworks)] :
           terms = [i \in 1..2 |->
                       [CustomTermRow(i, 1, "accept", source_of[i], destination_of[i],
                                      "False", "False")
                           EXCEPT !.lex_order = IF i = first THEN <<1>> ELSE <<2>>]]
    /\ term_seq = 2
    /\ targets = << >>
    /\ tests = << >> /\ test_seq = 0
    /\ \E source_filters \in SUBSET (1..MaxNetworks),
          destination_filters \in SUBSET (1..MaxNetworks),
          policy_filters \in {{}, {1}} :
           dynamic_policies =
               <<[name |-> "dyn_a", filter_action |-> Null, default_action |-> Null,
                  targets |-> {}, tests |-> {}, source_filters |-> source_filters,
                  destination_filters |-> destination_filters,
                  policy_filters |-> policy_filters]>>
    /\ dynamic_policy_seq = 1
    /\ revisions = << >> /\ revision_seq = 0
    /\ revision_configs = << >> /\ config_seq = 0
    /\ revise = NoRevision
    /\ call = [pc |-> "called", function |-> "get_tests_run", arguments |-> <<1>>,
               result |-> << >>]
    /\ session = NoSession /\ adaptor = NoAdaptor
    /\ deployers = << >>
    /\ deployments = << >> /\ deployment_seq = 0
    /\ jobs = << >>
    /\ workers = [w \in Workers |-> IdleWorker]
    /\ deploy = NoRequest
    /\ response = Resp("none", 0, NoId)

NextSnapshot ==
    \/ response.op = "none" /\ write_revision([kind |-> "dynamic_policy", id |-> 1])
    \/ call_get_tests_run

SpecSnapshot == InitSnapshot /\ [][NextSnapshot]_vars

(* The row of a term the test run was handed. *)
HandedRow(term) ==
    [terms[term.id] EXCEPT !.source_networks = term.source_networks,
                           !.destination_networks = term.destination_networks]

(* C29: the ordered list of terms POST /revisions snapshots for a dynamic   *)
(* policy is the list the resolver hands to the test run of that dynamic    *)
(* policy on the same store: the same terms, in the same order, with the    *)
(* same network lists.                                                      *)
C29_SnapshotIsTestedList ==
    (/\ call.pc = "returned" /\ call.function = "get_tests_run"
     /\ 1 \in DOMAIN revisions) =>
        /\ call.result.ok
        /\ revisions[1].expanded_terms =
               [i \in DOMAIN call.result.value |-> HandedRow(call.result.value[i])]

----------------------------------------------------------------------------
(* get_rank_between on its own: it is called with any two ranks of up to    *)
(* MaxRankLen letters out of RankLetters.                                   *)

RankLetters == {0, 1, ALPHABET_SIZE \div 2, ALPHABET_SIZE - 1}

RECURSIVE RanksOfLen(_)
RanksOfLen(n) ==
    IF n = 0 THEN {<< >>}
    ELSE {r \o <<c>> : r \in RanksOfLen(n - 1), c \in RankLetters}

RankInputs == UNION {RanksOfLen(n) : n \in 1..MaxRankLen}

call_get_rank_between ==
    /\ call.pc = "called" /\ call.function = "get_rank_between"
    /\ call' = [call EXCEPT
                   !.pc = "returned",
                   !.result = get_rank_between(call.arguments[1], call.arguments[2])]
    /\ UNCHANGED <<netVars, svcVars, polVars, auxVars, revVars, depVars, session, adaptor,
                   response>>

InitRank ==
    /\ networks = << >> /\ network_seq = 0
    /\ addresses = << >> /\ address_seq = 0
    /\ pending = [c \in Clients |-> NoName]
    /\ services = << >> /\ service_seq = 0
    /\ entries = << >> /\ entry_seq = 0
    /\ policies = << >> /\ policy_seq = 0
    /\ terms = << >> /\ term_seq = 0
    /\ targets = << >>
    /\ tests = << >> /\ test_seq = 0
    /\ dynamic_policies = << >> /\ dynamic_policy_seq = 0
    /\ revisions = << >> /\ revision_seq = 0
    /\ revision_configs = << >> /\ config_seq = 0
    /\ revise = NoRevision
    /\ \E first_rank \in RankInputs, second_rank \in RankInputs :
           call = [pc |-> "called", function |-> "get_rank_between",
                   arguments |-> <<first_rank, second_rank>>, result |-> << >>]
    /\ session = NoSession /\ adaptor = NoAdaptor
    /\ deployers = << >>
    /\ deployments = << >> /\ deployment_seq = 0
    /\ jobs = << >>
    /\ workers = [w \in Workers |-> IdleWorker]
    /\ deploy = NoRequest
    /\ response = Resp("none", 0, NoId)

(* The rank of a term that was created in an empty policy and moved to     *)
(* position 1 `moves` times.                                                *)
RECURSIVE FrontRank(_)
FrontRank(moves) ==
    IF moves = 0 THEN CreateLexOrder(<< >>, 1)
    ELSE LET lex_order == FrontRank(moves - 1)
         IN IF lex_order = AssertionError THEN AssertionError
            ELSE UpdateLexOrder(<<lex_order>>, 1)

(* Policy pol_a after POST /policies/1/terms and up to MaxFrontMoves times  *)
(* PUT /policies/1/terms/1 with position 1.                                 *)
InitFrontTerm ==
    /\ networks = <<[name |-> "net_a"]>> /\ network_seq = 1
    /\ addresses = <<[network_id |-> 1, address |-> <<0, 1>>, nested_network_id |-> NoId]>>
    /\ address_seq = 1
    /\ pending = [c \in Clients |-> NoName]
    /\ services = << >> /\ service_seq = 0
    /\ entries = << >> /\ entry_seq = 0
    /\ policies = <<[name |-> "pol_a", targets |-> {}, tests |-> {}]>>
    /\ policy_seq = 1
    /\ \E moves \in 0..MaxFrontMoves, v \in PositionTermValues :
           terms = <<UpdateTermM2M(NewTermRow(1, v, FrontRank(moves)), v).row>>
    /\ term_seq = 1
    /\ targets = << >>
    /\ tests = << >> /\ test_seq = 0
    /\ dynamic_policies = << >> /\ dynamic_policy_seq = 0
    /\ revisions = << >> /\ revision_seq = 0
    /\ revision_configs = << >> /\ config_seq = 0
    /\ revise = NoRevision
    /\ call = NoCall /\ session = NoSession /\ adaptor = NoAdaptor
    /\ deployers = << >>
    /\ deployments = << >> /\ deployment_seq = 0
    /\ jobs = << >>
    /\ workers = [w \in Workers |-> IdleWorker]
    /\ deploy = NoRequest
    /\ response = Resp("put_policy_terms", 200, 1)

(* Every rank is below "aaaac" and has at most one letter more than the    *)
(* first rank: the distance of longer ranks is beyond the integers of the  *)
(* model checker.                                                           *)
RanksAtFront ==
    \A t \in DOMAIN terms :
        /\ RankLess(terms[t].lex_order, <<0, 0, 0, 0, 2>>)
        /\ Len(terms[t].lex_order) <= Len(RankFirst) + 1

(* The function called on its own, and the function as the term handlers   *)
(* of policy pol_a call it, from no terms on; the handlers are followed     *)
(* while the ranks are shallow or at the front.                             *)
InitLexirank == InitRank \/ InitTerms \/ InitFrontTerm

NextLexirank ==
    \/ call_get_rank_between
    \/ \E v \in PositionTermValues :
           /\ call = NoCall /\ (RanksWithinDepth \/ RanksAtFront)
           /\ write_policy_term(1, v)
    \/ \E t \in 1..MaxTerms, v \in PositionTermValues :
           /\ call = NoCall /\ (RanksWithinDepth \/ RanksAtFront)
           /\ put_policy_terms(1, t, v)

SpecLexirank == InitLexirank /\ [][NextLexirank]_vars

RankReturned == call.pc = "returned" /\ call.function = "get_rank_between"

(* The two ranks differ after the first loop has made them equal in length. *)
PaddedDiffer(first_rank, second_rank) ==
    LET n == Max(Len(first_rank), Len(second_rank))
    IN PadRank(first_rank, n) # PadRank(second_rank, n)

StrictlyBetween(first_rank, rank, second_rank) ==
    /\ rank # AssertionError
    /\ RankLess(first_rank, rank)
    /\ RankLess(rank, second_rank)

====
